---- MODULE Spec2Model ----
(***************************************************************************)
(* Model of GetLeagueData.py: the median scorer (get_median_records) and   *)
(* the standings pipeline of main() (snapshot build, week-1 merge, append  *)
(* of week-1-only teams, leader / games-behind, re-rank).                  *)
(*                                                                         *)
(* Python values are modelled as follows.                                  *)
(*   - str: the sequence of its code points; U("Team A") is the str        *)
(*     "Team A", <<931>> the str of the one character U+03A3.              *)
(*   - a Python scalar (None, str, int, float, bool): a record             *)
(*     [ty, s, n, d, k] built by None, Str, Num, Flt, Bool, Inf, NaN.      *)
(*   - float: the decimal n / 10^d with the fewest decimals d that the     *)
(*     double prints as, or inf, nan, -0.0 (field k).  The binary error    *)
(*     of a double shows only where round() meets a tie; it is computed    *)
(*     there.  n is an integer of TLC: about nine digits.                  *)
(*   - dict of the week-1 file: the sequence of its [k, v] entries in      *)
(*     insertion (file) order; its values are scalars.                     *)
(*   - an operator whose code may raise returns [exc, val]: exc is the     *)
(*     exception's name, "" when none was raised.                          *)
(*   - GB: tenths of a game (round(x / 2, 1) of an integer x is 5 * x      *)
(*     tenths).                                                            *)
(*   - a weekly score: an integer; the median is kept doubled (median_x2)  *)
(*     so that the mean of the two middle scores stays an integer.         *)
(* The output fields "Win %", "Acquisition Budget" and "Team Logo" are     *)
(* written once and never read again by the pipeline; they are left out.   *)
(***************************************************************************)
EXTENDS Integers, Sequences, FiniteSets, TLC

VARIABLES
    pc,               \* position of the run in get_median_records / main
    teams,            \* league.teams
    current_week,     \* league.current_week
    week,             \* loop variable of get_median_records
    box_scores,       \* result of l.box_scores(week) for the last week fetched
    median_x2,        \* twice the median of the last scored week
    median_records,   \* team_id -> [wins, losses]
    prev_records,     \* history: median_records before the last week fetched
    clean_records,    \* history: tally over the weeks that had a score only
    scored_weeks,     \* history: team_id -> weeks fetched in which it had a score
    weeks_seen,       \* history: the weeks passed to l.box_scores, in order
    week1_list,       \* content of WEEK1_FILE
    week1_lookup,     \* normalized key -> index of the week-1 row in week1_list
    matched_wk_keys,  \* set of keys marked as merged / appended
    teams_data,       \* the report rows
    idx,              \* loop index of the merge loop / the append loop
    leader,           \* index in teams_data of the row picked by max(), 0 before
    merge_log,        \* history: <<row index, week-1 index>> of every merge done
    append_log        \* history: week-1 indices appended, in order

vars == <<pc, teams, current_week, week, box_scores, median_x2, median_records,
          prev_records, clean_records, scored_weeks, weeks_seen, week1_list, week1_lookup,
          matched_wk_keys, teams_data, idx, leader, merge_log, append_log>>

medianVars == <<current_week, week, box_scores, median_x2, median_records,
                prev_records, clean_records, scored_weeks, weeks_seen>>

mainVars == <<week1_list, week1_lookup, matched_wk_keys, teams_data, idx,
              leader, merge_log, append_log>>

(***************************************************************************)
(* Python values                                                           *)
(***************************************************************************)
None == [ty |-> "None", s |-> <<>>, n |-> 0, d |-> 0, k |-> "fin"]

\* a str: x is the sequence of its code points
Str(x) == [ty |-> "str", s |-> x, n |-> 0, d |-> 0, k |-> "fin"]

\* an int
Num(x) == [ty |-> "num", s |-> <<>>, n |-> x, d |-> 0, k |-> "fin"]

\* True / False
Bool(b) == [ty |-> "bool", s |-> <<>>, n |-> IF b THEN 1 ELSE 0, d |-> 0, k |-> "fin"]

\* the float n / 10^d, with the fewest decimals
RECURSIVE Flt(_, _)
Flt(n, d) ==
    IF d > 0 /\ n % 10 = 0 THEN Flt(n \div 10, d - 1)
    ELSE [ty |-> "float", s |-> <<>>, n |-> n, d |-> d, k |-> "fin"]

\* -0.0
NegZero == [ty |-> "float", s |-> <<>>, n |-> 0, d |-> 0, k |-> "nzero"]

\* float("inf") for sign 1, float("-inf") for sign -1
Inf(sign) == [ty |-> "float", s |-> <<>>, n |-> sign, d |-> 0, k |-> "inf"]

\* float("nan")
NaN == [ty |-> "float", s |-> <<>>, n |-> 0, d |-> 0, k |-> "nan"]

\* bool(v)
Truthy(v) == CASE v.ty = "None" -> FALSE
               [] v.ty = "str" -> v.s # <<>>
               [] v.ty = "float" -> v.k \in {"inf", "nan"} \/ v.n # 0
               [] OTHER -> v.n # 0

\* v not in (None, "")
NotBlank(v) == ~(v.ty = "None" \/ (v.ty = "str" /\ v.s = <<>>))

(***************************************************************************)
(* str: code points, and the Unicode tables of the str methods (CPython    *)
(* 3.11, Unicode 14.0)                                                     *)
(***************************************************************************)
\* the printable ASCII characters in code order, from U+0020 on; a space
\* stands where U+0060 would
ASCII ==
    " !\"#$%&'()*+,-./0123456789:;<=>?@ABCDEFGHIJKLMNOPQRSTUVWXYZ[\\]^_ abcdefghijklmnopqrstuvwxyz{|}~"

\* ord(c) of a printable ASCII character
Codes ==
    [c \in {SubSeq(ASCII, i, i) : i \in 1..Len(ASCII)} |->
        31 + (CHOOSE i \in 1..Len(ASCII) :
                 /\ SubSeq(ASCII, i, i) = c
                 /\ \A j \in 1..(i - 1) : SubSeq(ASCII, j, j) # c)]

\* the str written as the literal lit (printable ASCII)
RECURSIVE U(_)
U(lit) == IF lit = "" THEN <<>> ELSE <<Codes[SubSeq(lit, 1, 1)]>> \o U(Tail(lit))

\* the value of a str literal
Lit(lit) == Str(U(lit))

\* the code points of the characters of the literal lit
CharSet(lit) == {Codes[SubSeq(lit, i, i)] : i \in 1..Len(lit)}

\* str.lower() of one character above U+007F that has a one-character
\* lower case: <<first, last, step, delta>> sends first, first + step, ...,
\* last to itself + delta
LowerRanges ==
    {
      <<192, 214, 1, 32>>, <<216, 222, 1, 32>>, <<256, 302, 2, 1>>,
      <<306, 310, 2, 1>>, <<313, 327, 2, 1>>, <<330, 374, 2, 1>>,
      <<376, 376, 1, -121>>, <<377, 381, 2, 1>>, <<385, 385, 1, 210>>,
      <<386, 388, 2, 1>>, <<390, 390, 1, 206>>, <<391, 391, 1, 1>>,
      <<393, 394, 1, 205>>, <<395, 395, 1, 1>>, <<398, 398, 1, 79>>,
      <<399, 399, 1, 202>>, <<400, 400, 1, 203>>, <<401, 401, 1, 1>>,
      <<403, 403, 1, 205>>, <<404, 404, 1, 207>>, <<406, 406, 1, 211>>,
      <<407, 407, 1, 209>>, <<408, 408, 1, 1>>, <<412, 412, 1, 211>>,
      <<413, 413, 1, 213>>, <<415, 415, 1, 214>>, <<416, 420, 2, 1>>,
      <<422, 422, 1, 218>>, <<423, 423, 1, 1>>, <<425, 425, 1, 218>>,
      <<428, 428, 1, 1>>, <<430, 430, 1, 218>>, <<431, 431, 1, 1>>,
      <<433, 434, 1, 217>>, <<435, 437, 2, 1>>, <<439, 439, 1, 219>>,
      <<440, 440, 1, 1>>, <<444, 444, 1, 1>>, <<452, 452, 1, 2>>,
      <<453, 453, 1, 1>>, <<455, 455, 1, 2>>, <<456, 456, 1, 1>>,
      <<458, 458, 1, 2>>, <<459, 475, 2, 1>>, <<478, 494, 2, 1>>,
      <<497, 497, 1, 2>>, <<498, 500, 2, 1>>, <<502, 502, 1, -97>>,
      <<503, 503, 1, -56>>, <<504, 542, 2, 1>>, <<544, 544, 1, -130>>,
      <<546, 562, 2, 1>>, <<570, 570, 1, 10795>>, <<571, 571, 1, 1>>,
      <<573, 573, 1, -163>>, <<574, 574, 1, 10792>>, <<577, 577, 1, 1>>,
      <<579, 579, 1, -195>>, <<580, 580, 1, 69>>, <<581, 581, 1, 71>>,
      <<582, 590, 2, 1>>, <<880, 882, 2, 1>>, <<886, 886, 1, 1>>,
      <<895, 895, 1, 116>>, <<902, 902, 1, 38>>, <<904, 906, 1, 37>>,
      <<908, 908, 1, 64>>, <<910, 911, 1, 63>>, <<913, 929, 1, 32>>,
      <<931, 939, 1, 32>>, <<975, 975, 1, 8>>, <<984, 1006, 2, 1>>,
      <<1012, 1012, 1, -60>>, <<1015, 1015, 1, 1>>, <<1017, 1017, 1, -7>>,
      <<1018, 1018, 1, 1>>, <<1021, 1023, 1, -130>>, <<1024, 1039, 1, 80>>,
      <<1040, 1071, 1, 32>>, <<1120, 1152, 2, 1>>, <<1162, 1214, 2, 1>>,
      <<1216, 1216, 1, 15>>, <<1217, 1229, 2, 1>>, <<1232, 1326, 2, 1>>,
      <<1329, 1366, 1, 48>>, <<4256, 4293, 1, 7264>>,
      <<4295, 4295, 1, 7264>>, <<4301, 4301, 1, 7264>>,
      <<5024, 5103, 1, 38864>>, <<5104, 5109, 1, 8>>,
      <<7312, 7354, 1, -3008>>, <<7357, 7359, 1, -3008>>,
      <<7680, 7828, 2, 1>>, <<7838, 7838, 1, -7615>>, <<7840, 7934, 2, 1>>,
      <<7944, 7951, 1, -8>>, <<7960, 7965, 1, -8>>, <<7976, 7983, 1, -8>>,
      <<7992, 7999, 1, -8>>, <<8008, 8013, 1, -8>>, <<8025, 8031, 2, -8>>,
      <<8040, 8047, 1, -8>>, <<8072, 8079, 1, -8>>, <<8088, 8095, 1, -8>>,
      <<8104, 8111, 1, -8>>, <<8120, 8121, 1, -8>>, <<8122, 8123, 1, -74>>,
      <<8124, 8124, 1, -9>>, <<8136, 8139, 1, -86>>, <<8140, 8140, 1, -9>>,
      <<8152, 8153, 1, -8>>, <<8154, 8155, 1, -100>>, <<8168, 8169, 1, -8>>,
      <<8170, 8171, 1, -112>>, <<8172, 8172, 1, -7>>,
      <<8184, 8185, 1, -128>>, <<8186, 8187, 1, -126>>,
      <<8188, 8188, 1, -9>>, <<8486, 8486, 1, -7517>>,
      <<8490, 8490, 1, -8383>>, <<8491, 8491, 1, -8262>>,
      <<8498, 8498, 1, 28>>, <<8544, 8559, 1, 16>>, <<8579, 8579, 1, 1>>,
      <<9398, 9423, 1, 26>>, <<11264, 11311, 1, 48>>, <<11360, 11360, 1, 1>>,
      <<11362, 11362, 1, -10743>>, <<11363, 11363, 1, -3814>>,
      <<11364, 11364, 1, -10727>>, <<11367, 11371, 2, 1>>,
      <<11373, 11373, 1, -10780>>, <<11374, 11374, 1, -10749>>,
      <<11375, 11375, 1, -10783>>, <<11376, 11376, 1, -10782>>,
      <<11378, 11378, 1, 1>>, <<11381, 11381, 1, 1>>,
      <<11390, 11391, 1, -10815>>, <<11392, 11490, 2, 1>>,
      <<11499, 11501, 2, 1>>, <<11506, 11506, 1, 1>>, <<42560, 42604, 2, 1>>,
      <<42624, 42650, 2, 1>>, <<42786, 42798, 2, 1>>, <<42802, 42862, 2, 1>>,
      <<42873, 42875, 2, 1>>, <<42877, 42877, 1, -35332>>,
      <<42878, 42886, 2, 1>>, <<42891, 42891, 1, 1>>,
      <<42893, 42893, 1, -42280>>, <<42896, 42898, 2, 1>>,
      <<42902, 42920, 2, 1>>, <<42922, 42922, 1, -42308>>,
      <<42923, 42923, 1, -42319>>, <<42924, 42924, 1, -42315>>,
      <<42925, 42925, 1, -42305>>, <<42926, 42926, 1, -42308>>,
      <<42928, 42928, 1, -42258>>, <<42929, 42929, 1, -42282>>,
      <<42930, 42930, 1, -42261>>, <<42931, 42931, 1, 928>>,
      <<42932, 42946, 2, 1>>, <<42948, 42948, 1, -48>>,
      <<42949, 42949, 1, -42307>>, <<42950, 42950, 1, -35384>>,
      <<42951, 42953, 2, 1>>, <<42960, 42960, 1, 1>>, <<42966, 42968, 2, 1>>,
      <<42997, 42997, 1, 1>>, <<65313, 65338, 1, 32>>,
      <<66560, 66599, 1, 40>>, <<66736, 66771, 1, 40>>,
      <<66928, 66964, 2, 39>>, <<66929, 66937, 2, 39>>,
      <<66941, 66953, 2, 39>>, <<66957, 66961, 2, 39>>,
      <<66965, 66965, 1, 39>>, <<68736, 68786, 1, 64>>,
      <<71840, 71871, 1, 32>>, <<93760, 93791, 1, 32>>,
      <<125184, 125217, 1, 34>> }

\* the characters above U+007F with the property Cased, as ranges
\* <<first, last>>
CasedRanges ==
    {
      <<170, 170>>, <<181, 181>>, <<186, 186>>, <<192, 214>>, <<216, 246>>,
      <<248, 442>>, <<444, 447>>, <<452, 659>>, <<661, 696>>, <<704, 705>>,
      <<736, 740>>, <<837, 837>>, <<880, 883>>, <<886, 887>>, <<890, 893>>,
      <<895, 895>>, <<902, 902>>, <<904, 906>>, <<908, 908>>, <<910, 929>>,
      <<931, 1013>>, <<1015, 1153>>, <<1162, 1327>>, <<1329, 1366>>,
      <<1376, 1416>>, <<4256, 4293>>, <<4295, 4295>>, <<4301, 4301>>,
      <<4304, 4346>>, <<4349, 4351>>, <<5024, 5109>>, <<5112, 5117>>,
      <<7296, 7304>>, <<7312, 7354>>, <<7357, 7359>>, <<7424, 7615>>,
      <<7680, 7957>>, <<7960, 7965>>, <<7968, 8005>>, <<8008, 8013>>,
      <<8016, 8023>>, <<8025, 8025>>, <<8027, 8027>>, <<8029, 8029>>,
      <<8031, 8061>>, <<8064, 8116>>, <<8118, 8124>>, <<8126, 8126>>,
      <<8130, 8132>>, <<8134, 8140>>, <<8144, 8147>>, <<8150, 8155>>,
      <<8160, 8172>>, <<8178, 8180>>, <<8182, 8188>>, <<8305, 8305>>,
      <<8319, 8319>>, <<8336, 8348>>, <<8450, 8450>>, <<8455, 8455>>,
      <<8458, 8467>>, <<8469, 8469>>, <<8473, 8477>>, <<8484, 8484>>,
      <<8486, 8486>>, <<8488, 8488>>, <<8490, 8493>>, <<8495, 8500>>,
      <<8505, 8505>>, <<8508, 8511>>, <<8517, 8521>>, <<8526, 8526>>,
      <<8544, 8575>>, <<8579, 8580>>, <<9398, 9449>>, <<11264, 11492>>,
      <<11499, 11502>>, <<11506, 11507>>, <<11520, 11557>>, <<11559, 11559>>,
      <<11565, 11565>>, <<42560, 42605>>, <<42624, 42653>>, <<42786, 42887>>,
      <<42891, 42894>>, <<42896, 42954>>, <<42960, 42961>>, <<42963, 42963>>,
      <<42965, 42969>>, <<42997, 42998>>, <<43000, 43002>>, <<43824, 43866>>,
      <<43868, 43880>>, <<43888, 43967>>, <<64256, 64262>>, <<64275, 64279>>,
      <<65313, 65338>>, <<65345, 65370>>, <<66560, 66639>>, <<66736, 66771>>,
      <<66776, 66811>>, <<66928, 66938>>, <<66940, 66954>>, <<66956, 66962>>,
      <<66964, 66965>>, <<66967, 66977>>, <<66979, 66993>>, <<66995, 67001>>,
      <<67003, 67004>>, <<67456, 67456>>, <<67459, 67461>>, <<67463, 67504>>,
      <<67506, 67514>>, <<68736, 68786>>, <<68800, 68850>>, <<71840, 71903>>,
      <<93760, 93823>>, <<119808, 119892>>, <<119894, 119964>>,
      <<119966, 119967>>, <<119970, 119970>>, <<119973, 119974>>,
      <<119977, 119980>>, <<119982, 119993>>, <<119995, 119995>>,
      <<119997, 120003>>, <<120005, 120069>>, <<120071, 120074>>,
      <<120077, 120084>>, <<120086, 120092>>, <<120094, 120121>>,
      <<120123, 120126>>, <<120128, 120132>>, <<120134, 120134>>,
      <<120138, 120144>>, <<120146, 120485>>, <<120488, 120512>>,
      <<120514, 120538>>, <<120540, 120570>>, <<120572, 120596>>,
      <<120598, 120628>>, <<120630, 120654>>, <<120656, 120686>>,
      <<120688, 120712>>, <<120714, 120744>>, <<120746, 120770>>,
      <<120772, 120779>>, <<122624, 122633>>, <<122635, 122654>>,
      <<125184, 125251>>, <<127280, 127305>>, <<127312, 127337>>,
      <<127344, 127369>> }

\* the characters above U+007F with the property Case_Ignorable, as ranges
\* <<first, last>>
CaseIgnorableRanges ==
    {
      <<168, 168>>, <<173, 173>>, <<175, 175>>, <<180, 180>>, <<183, 184>>,
      <<688, 879>>, <<884, 885>>, <<890, 890>>, <<900, 901>>, <<903, 903>>,
      <<1155, 1161>>, <<1369, 1369>>, <<1375, 1375>>, <<1425, 1469>>,
      <<1471, 1471>>, <<1473, 1474>>, <<1476, 1477>>, <<1479, 1479>>,
      <<1524, 1524>>, <<1536, 1541>>, <<1552, 1562>>, <<1564, 1564>>,
      <<1600, 1600>>, <<1611, 1631>>, <<1648, 1648>>, <<1750, 1757>>,
      <<1759, 1768>>, <<1770, 1773>>, <<1807, 1807>>, <<1809, 1809>>,
      <<1840, 1866>>, <<1958, 1968>>, <<2027, 2037>>, <<2042, 2042>>,
      <<2045, 2045>>, <<2070, 2093>>, <<2137, 2139>>, <<2184, 2184>>,
      <<2192, 2193>>, <<2200, 2207>>, <<2249, 2306>>, <<2362, 2362>>,
      <<2364, 2364>>, <<2369, 2376>>, <<2381, 2381>>, <<2385, 2391>>,
      <<2402, 2403>>, <<2417, 2417>>, <<2433, 2433>>, <<2492, 2492>>,
      <<2497, 2500>>, <<2509, 2509>>, <<2530, 2531>>, <<2558, 2558>>,
      <<2561, 2562>>, <<2620, 2620>>, <<2625, 2626>>, <<2631, 2632>>,
      <<2635, 2637>>, <<2641, 2641>>, <<2672, 2673>>, <<2677, 2677>>,
      <<2689, 2690>>, <<2748, 2748>>, <<2753, 2757>>, <<2759, 2760>>,
      <<2765, 2765>>, <<2786, 2787>>, <<2810, 2815>>, <<2817, 2817>>,
      <<2876, 2876>>, <<2879, 2879>>, <<2881, 2884>>, <<2893, 2893>>,
      <<2901, 2902>>, <<2914, 2915>>, <<2946, 2946>>, <<3008, 3008>>,
      <<3021, 3021>>, <<3072, 3072>>, <<3076, 3076>>, <<3132, 3132>>,
      <<3134, 3136>>, <<3142, 3144>>, <<3146, 3149>>, <<3157, 3158>>,
      <<3170, 3171>>, <<3201, 3201>>, <<3260, 3260>>, <<3263, 3263>>,
      <<3270, 3270>>, <<3276, 3277>>, <<3298, 3299>>, <<3328, 3329>>,
      <<3387, 3388>>, <<3393, 3396>>, <<3405, 3405>>, <<3426, 3427>>,
      <<3457, 3457>>, <<3530, 3530>>, <<3538, 3540>>, <<3542, 3542>>,
      <<3633, 3633>>, <<3636, 3642>>, <<3654, 3662>>, <<3761, 3761>>,
      <<3764, 3772>>, <<3782, 3782>>, <<3784, 3789>>, <<3864, 3865>>,
      <<3893, 3893>>, <<3895, 3895>>, <<3897, 3897>>, <<3953, 3966>>,
      <<3968, 3972>>, <<3974, 3975>>, <<3981, 3991>>, <<3993, 4028>>,
      <<4038, 4038>>, <<4141, 4144>>, <<4146, 4151>>, <<4153, 4154>>,
      <<4157, 4158>>, <<4184, 4185>>, <<4190, 4192>>, <<4209, 4212>>,
      <<4226, 4226>>, <<4229, 4230>>, <<4237, 4237>>, <<4253, 4253>>,
      <<4348, 4348>>, <<4957, 4959>>, <<5906, 5908>>, <<5938, 5939>>,
      <<5970, 5971>>, <<6002, 6003>>, <<6068, 6069>>, <<6071, 6077>>,
      <<6086, 6086>>, <<6089, 6099>>, <<6103, 6103>>, <<6109, 6109>>,
      <<6155, 6159>>, <<6211, 6211>>, <<6277, 6278>>, <<6313, 6313>>,
      <<6432, 6434>>, <<6439, 6440>>, <<6450, 6450>>, <<6457, 6459>>,
      <<6679, 6680>>, <<6683, 6683>>, <<6742, 6742>>, <<6744, 6750>>,
      <<6752, 6752>>, <<6754, 6754>>, <<6757, 6764>>, <<6771, 6780>>,
      <<6783, 6783>>, <<6823, 6823>>, <<6832, 6862>>, <<6912, 6915>>,
      <<6964, 6964>>, <<6966, 6970>>, <<6972, 6972>>, <<6978, 6978>>,
      <<7019, 7027>>, <<7040, 7041>>, <<7074, 7077>>, <<7080, 7081>>,
      <<7083, 7085>>, <<7142, 7142>>, <<7144, 7145>>, <<7149, 7149>>,
      <<7151, 7153>>, <<7212, 7219>>, <<7222, 7223>>, <<7288, 7293>>,
      <<7376, 7378>>, <<7380, 7392>>, <<7394, 7400>>, <<7405, 7405>>,
      <<7412, 7412>>, <<7416, 7417>>, <<7468, 7530>>, <<7544, 7544>>,
      <<7579, 7679>>, <<8125, 8125>>, <<8127, 8129>>, <<8141, 8143>>,
      <<8157, 8159>>, <<8173, 8175>>, <<8189, 8190>>, <<8203, 8207>>,
      <<8216, 8217>>, <<8228, 8228>>, <<8231, 8231>>, <<8234, 8238>>,
      <<8288, 8292>>, <<8294, 8303>>, <<8305, 8305>>, <<8319, 8319>>,
      <<8336, 8348>>, <<8400, 8432>>, <<11388, 11389>>, <<11503, 11505>>,
      <<11631, 11631>>, <<11647, 11647>>, <<11744, 11775>>, <<11823, 11823>>,
      <<12293, 12293>>, <<12330, 12333>>, <<12337, 12341>>, <<12347, 12347>>,
      <<12441, 12446>>, <<12540, 12542>>, <<40981, 40981>>, <<42232, 42237>>,
      <<42508, 42508>>, <<42607, 42610>>, <<42612, 42621>>, <<42623, 42623>>,
      <<42652, 42655>>, <<42736, 42737>>, <<42752, 42785>>, <<42864, 42864>>,
      <<42888, 42890>>, <<42994, 42996>>, <<43000, 43001>>, <<43010, 43010>>,
      <<43014, 43014>>, <<43019, 43019>>, <<43045, 43046>>, <<43052, 43052>>,
      <<43204, 43205>>, <<43232, 43249>>, <<43263, 43263>>, <<43302, 43309>>,
      <<43335, 43345>>, <<43392, 43394>>, <<43443, 43443>>, <<43446, 43449>>,
      <<43452, 43453>>, <<43471, 43471>>, <<43493, 43494>>, <<43561, 43566>>,
      <<43569, 43570>>, <<43573, 43574>>, <<43587, 43587>>, <<43596, 43596>>,
      <<43632, 43632>>, <<43644, 43644>>, <<43696, 43696>>, <<43698, 43700>>,
      <<43703, 43704>>, <<43710, 43711>>, <<43713, 43713>>, <<43741, 43741>>,
      <<43756, 43757>>, <<43763, 43764>>, <<43766, 43766>>, <<43867, 43871>>,
      <<43881, 43883>>, <<44005, 44005>>, <<44008, 44008>>, <<44013, 44013>>,
      <<64286, 64286>>, <<64434, 64450>>, <<65024, 65039>>, <<65043, 65043>>,
      <<65056, 65071>>, <<65106, 65106>>, <<65109, 65109>>, <<65279, 65279>>,
      <<65287, 65287>>, <<65294, 65294>>, <<65306, 65306>>, <<65342, 65342>>,
      <<65344, 65344>>, <<65392, 65392>>, <<65438, 65439>>, <<65507, 65507>>,
      <<65529, 65531>>, <<66045, 66045>>, <<66272, 66272>>, <<66422, 66426>>,
      <<67456, 67461>>, <<67463, 67504>>, <<67506, 67514>>, <<68097, 68099>>,
      <<68101, 68102>>, <<68108, 68111>>, <<68152, 68154>>, <<68159, 68159>>,
      <<68325, 68326>>, <<68900, 68903>>, <<69291, 69292>>, <<69446, 69456>>,
      <<69506, 69509>>, <<69633, 69633>>, <<69688, 69702>>, <<69744, 69744>>,
      <<69747, 69748>>, <<69759, 69761>>, <<69811, 69814>>, <<69817, 69818>>,
      <<69821, 69821>>, <<69826, 69826>>, <<69837, 69837>>, <<69888, 69890>>,
      <<69927, 69931>>, <<69933, 69940>>, <<70003, 70003>>, <<70016, 70017>>,
      <<70070, 70078>>, <<70089, 70092>>, <<70095, 70095>>, <<70191, 70193>>,
      <<70196, 70196>>, <<70198, 70199>>, <<70206, 70206>>, <<70367, 70367>>,
      <<70371, 70378>>, <<70400, 70401>>, <<70459, 70460>>, <<70464, 70464>>,
      <<70502, 70508>>, <<70512, 70516>>, <<70712, 70719>>, <<70722, 70724>>,
      <<70726, 70726>>, <<70750, 70750>>, <<70835, 70840>>, <<70842, 70842>>,
      <<70847, 70848>>, <<70850, 70851>>, <<71090, 71093>>, <<71100, 71101>>,
      <<71103, 71104>>, <<71132, 71133>>, <<71219, 71226>>, <<71229, 71229>>,
      <<71231, 71232>>, <<71339, 71339>>, <<71341, 71341>>, <<71344, 71349>>,
      <<71351, 71351>>, <<71453, 71455>>, <<71458, 71461>>, <<71463, 71467>>,
      <<71727, 71735>>, <<71737, 71738>>, <<71995, 71996>>, <<71998, 71998>>,
      <<72003, 72003>>, <<72148, 72151>>, <<72154, 72155>>, <<72160, 72160>>,
      <<72193, 72202>>, <<72243, 72248>>, <<72251, 72254>>, <<72263, 72263>>,
      <<72273, 72278>>, <<72281, 72283>>, <<72330, 72342>>, <<72344, 72345>>,
      <<72752, 72758>>, <<72760, 72765>>, <<72767, 72767>>, <<72850, 72871>>,
      <<72874, 72880>>, <<72882, 72883>>, <<72885, 72886>>, <<73009, 73014>>,
      <<73018, 73018>>, <<73020, 73021>>, <<73023, 73029>>, <<73031, 73031>>,
      <<73104, 73105>>, <<73109, 73109>>, <<73111, 73111>>, <<73459, 73460>>,
      <<78896, 78904>>, <<92912, 92916>>, <<92976, 92982>>, <<92992, 92995>>,
      <<94031, 94031>>, <<94095, 94111>>, <<94176, 94177>>, <<94179, 94180>>,
      <<110576, 110579>>, <<110581, 110587>>, <<110589, 110590>>,
      <<113821, 113822>>, <<113824, 113827>>, <<118528, 118573>>,
      <<118576, 118598>>, <<119143, 119145>>, <<119155, 119170>>,
      <<119173, 119179>>, <<119210, 119213>>, <<119362, 119364>>,
      <<121344, 121398>>, <<121403, 121452>>, <<121461, 121461>>,
      <<121476, 121476>>, <<121499, 121503>>, <<121505, 121519>>,
      <<122880, 122886>>, <<122888, 122904>>, <<122907, 122913>>,
      <<122915, 122916>>, <<122918, 122922>>, <<123184, 123197>>,
      <<123566, 123566>>, <<123628, 123631>>, <<125136, 125142>>,
      <<125252, 125259>>, <<127995, 127999>>, <<917505, 917505>>,
      <<917536, 917631>>, <<917760, 917999>> }

\* the characters 0 of the decimal digits (category Nd); the digits 1..9 of
\* each follow it
DigitZeros ==
    {
      48, 1632, 1776, 1984, 2406, 2534, 2662, 2790, 2918, 3046, 3174, 3302,
      3430, 3558, 3664, 3792, 3872, 4160, 4240, 6112, 6160, 6470, 6608, 6784,
      6800, 6992, 7088, 7232, 7248, 42528, 43216, 43264, 43472, 43504, 43600,
      44016, 65296, 66720, 68912, 69734, 69872, 69942, 70096, 70384, 70736,
      70864, 71248, 71360, 71472, 71904, 72016, 72784, 73040, 73120, 92768,
      92864, 93008, 120782, 120792, 120802, 120812, 120822, 123200, 123632,
      125264, 130032 }

\* the white space of str.strip() (str.isspace())
SpaceSet ==
    {
      9, 10, 11, 12, 13, 28, 29, 30, 31, 32, 133, 160, 5760, 8192, 8193,
      8194, 8195, 8196, 8197, 8198, 8199, 8200, 8201, 8202, 8232, 8233, 8239,
      8287, 12288 }

\* \d of re, and the digits of int() and float()
IsDigit(c) ==
    \/ 48 <= c /\ c <= 57
    \/ c > 127 /\ \E z \in DigitZeros : z <= c /\ c <= z + 9

\* int(c) of a digit
DigitVal(c) ==
    IF c <= 57 THEN c - 48 ELSE c - (CHOOSE z \in DigitZeros : z <= c /\ c <= z + 9)

IsCased(c) ==
    IF c < 128 THEN (65 <= c /\ c <= 90) \/ (97 <= c /\ c <= 122)
    ELSE \E r \in CasedRanges : r[1] <= c /\ c <= r[2]

IsCaseIgnorable(c) ==
    IF c < 128 THEN c \in {39, 46, 58, 94, 96}
    ELSE \E r \in CaseIgnorableRanges : r[1] <= c /\ c <= r[2]

\* the lower case of one character out of context
LowerChar(c) ==
    IF c < 128 THEN (IF 65 <= c /\ c <= 90 THEN <<c + 32>> ELSE <<c>>)
    ELSE IF c = 304 THEN <<105, 775>>
    ELSE LET hit == {r \in LowerRanges : r[1] <= c /\ c <= r[2] /\ (c - r[1]) % r[3] = 0}
         IN  IF hit = {} THEN <<c>> ELSE <<c + (CHOOSE r \in hit : TRUE)[4]>>

\* the capital sigma s[i] is a final one: the nearest character before it
\* that is not case-ignorable is cased, the nearest one after it is not
FinalSigma(s, i) ==
    LET before == {j \in 1..(i - 1) : ~IsCaseIgnorable(s[j])}
        after == {j \in (i + 1)..Len(s) : ~IsCaseIgnorable(s[j])}
        last == CHOOSE j \in before : \A o \in before : o <= j
        next == CHOOSE j \in after : \A o \in after : j <= o
    IN  /\ before # {} /\ IsCased(s[last])
        /\ (after = {} \/ ~IsCased(s[next]))

\* str.lower() of the characters of s from index i on
RECURSIVE LowerFrom(_, _)
LowerFrom(s, i) ==
    IF i > Len(s) THEN <<>>
    ELSE (IF s[i] = 931 THEN (IF FinalSigma(s, i) THEN <<962>> ELSE <<963>>)
          ELSE LowerChar(s[i]))
         \o LowerFrom(s, i + 1)

\* str.lower()
Lower(s) == LowerFrom(s, 1)

RECURSIVE LStrip(_, _)
LStrip(s, spaces) == IF s # <<>> /\ s[1] \in spaces THEN LStrip(Tail(s), spaces) ELSE s

RECURSIVE RStrip(_, _)
RStrip(s, spaces) ==
    IF s # <<>> /\ s[Len(s)] \in spaces
    THEN RStrip(SubSeq(s, 1, Len(s) - 1), spaces)
    ELSE s

\* str.strip()
Strip(s) == RStrip(LStrip(s, SpaceSet), SpaceSet)

\* re.sub(r"[^...]", "", s): the characters of s that are in keep, in order
RECURSIVE KeepChars(_, _)
KeepChars(s, keep) ==
    IF s = <<>> THEN <<>>
    ELSE (IF s[1] \in keep THEN <<s[1]>> ELSE <<>>) \o KeepChars(Tail(s), keep)

\* s.replace(c, "") for every character c of drop
RECURSIVE DropChars(_, _)
DropChars(s, drop) ==
    IF s = <<>> THEN <<>>
    ELSE (IF s[1] \in drop THEN <<>> ELSE <<s[1]>>) \o DropChars(Tail(s), drop)

\* [a-z0-9]
LowerAlnum == (97..122) \cup (48..57)

\* normalize_name(name) of a str: re.sub(r"[^a-z0-9]", "", (name or "").lower().strip())
normalize_name(name) == KeepChars(Strip(Lower(name)), LowerAlnum)

\* int(n) of a string of digits
RECURSIVE StrToInt(_)
StrToInt(s) ==
    IF s = <<>> THEN 0
    ELSE 10 * StrToInt(SubSeq(s, 1, Len(s) - 1)) + DigitVal(s[Len(s)])

\* str(n) of an int
RECURSIVE IntToStr(_)
IntToStr(n) ==
    IF n < 0 THEN <<45>> \o IntToStr(-n)
    ELSE IF n < 10 THEN <<48 + n>>
    ELSE IntToStr(n \div 10) \o <<48 + (n % 10)>>

(***************************************************************************)
(* float: float(), +, comparison, round(), str()                           *)
(***************************************************************************)
RECURSIVE Pow10(_)
Pow10(e) == IF e = 0 THEN 1 ELSE 10 * Pow10(e - 1)

Abs(n) == IF n < 0 THEN -n ELSE n

Zero == Flt(0, 0)

\* s with its leading "0" characters removed
RECURSIVE DropZeros(_)
DropZeros(s) == IF s # <<>> /\ s[1] = Codes["0"] THEN DropZeros(Tail(s)) ELSE s

AllDigits(s) == \A i \in 1..Len(s) : IsDigit(s[i])

\* the first position of s that holds a character of chars, 0 for none
FirstOf(s, chars) ==
    LET S == {i \in 1..Len(s) : s[i] \in chars}
    IN  IF S = {} THEN 0 ELSE CHOOSE i \in S : \A o \in S : i <= o

\* every "_" of s stands between two digits
UnderscoresOK(s) ==
    \A i \in 1..Len(s) :
        s[i] = Codes["_"] =>
            /\ 1 < i /\ i < Len(s)
            /\ IsDigit(s[i - 1]) /\ IsDigit(s[i + 1])

\* float() raised ValueError
NotAFloat == [exc |-> "ValueError", val |-> Zero]

IsFloat(x) == [exc |-> "", val |-> x]

(***************************************************************************)
(* The ends of the range of a double.  A natural number is the sequence   *)
(* of its decimal digits, the highest first; no digit stands for 0.        *)
(***************************************************************************)
\* 2^1074
TWO_1074 ==
    <<
      2, 0, 2, 4, 0, 2, 2, 5, 3, 3, 0, 7, 3, 1, 0, 6, 1, 8, 3, 5, 2, 4, 9, 5,
      3, 4, 6, 7, 1, 8, 9, 1, 7, 3, 0, 7, 0, 4, 9, 5, 5, 6, 6, 4, 9, 7, 6, 4,
      1, 4, 2, 1, 1, 8, 3, 5, 6, 9, 0, 1, 3, 5, 8, 0, 2, 7, 4, 3, 0, 3, 3, 9,
      5, 6, 7, 9, 9, 5, 3, 4, 6, 8, 9, 1, 9, 6, 0, 3, 8, 3, 7, 0, 1, 4, 3, 7,
      1, 2, 4, 4, 9, 5, 1, 8, 7, 0, 7, 7, 8, 6, 4, 3, 1, 6, 8, 1, 1, 9, 1, 1,
      3, 8, 9, 8, 0, 8, 7, 3, 7, 3, 8, 5, 7, 9, 3, 4, 7, 6, 8, 6, 7, 0, 1, 3,
      3, 9, 9, 9, 4, 0, 7, 3, 8, 5, 0, 9, 9, 2, 1, 5, 1, 7, 4, 2, 4, 2, 7, 6,
      5, 6, 6, 3, 6, 1, 3, 6, 4, 4, 6, 6, 9, 0, 7, 7, 4, 2, 0, 9, 3, 2, 1, 6,
      3, 4, 1, 2, 3, 9, 7, 6, 7, 6, 7, 8, 4, 7, 2, 7, 4, 5, 0, 6, 8, 5, 6, 2,
      0, 0, 7, 4, 8, 3, 4, 2, 4, 6, 9, 2, 6, 9, 8, 6, 1, 8, 1, 0, 3, 3, 5, 5,
      6, 4, 9, 1, 5, 9, 5, 5, 6, 3, 4, 0, 8, 1, 0, 0, 5, 6, 5, 1, 2, 3, 5, 8,
      7, 6, 9, 5, 5, 2, 3, 3, 3, 4, 1, 4, 6, 1, 5, 2, 3, 0, 5, 0, 2, 5, 3, 2,
      1, 8, 6, 3, 2, 7, 5, 0, 8, 6, 4, 6, 0, 0, 6, 2, 6, 3, 3, 0, 7, 7, 0, 7,
      7, 4, 1, 0, 9, 3, 4, 9, 4, 7, 8, 4
    >>

\* 5^1074: 2^-1074 is 5^1074 / 10^1074
FIVE_1074 ==
    <<
      4, 9, 4, 0, 6, 5, 6, 4, 5, 8, 4, 1, 2, 4, 6, 5, 4, 4, 1, 7, 6, 5, 6, 8,
      7, 9, 2, 8, 6, 8, 2, 2, 1, 3, 7, 2, 3, 6, 5, 0, 5, 9, 8, 0, 2, 6, 1, 4,
      3, 2, 4, 7, 6, 4, 4, 2, 5, 5, 8, 5, 6, 8, 2, 5, 0, 0, 6, 7, 5, 5, 0, 7,
      2, 7, 0, 2, 0, 8, 7, 5, 1, 8, 6, 5, 2, 9, 9, 8, 3, 6, 3, 6, 1, 6, 3, 5,
      9, 9, 2, 3, 7, 9, 7, 9, 6, 5, 6, 4, 6, 9, 5, 4, 4, 5, 7, 1, 7, 7, 3, 0,
      9, 2, 6, 6, 5, 6, 7, 1, 0, 3, 5, 5, 9, 3, 9, 7, 9, 6, 3, 9, 8, 7, 7, 4,
      7, 9, 6, 0, 1, 0, 7, 8, 1, 8, 7, 8, 1, 2, 6, 3, 0, 0, 7, 1, 3, 1, 9, 0,
      3, 1, 1, 4, 0, 4, 5, 2, 7, 8, 4, 5, 8, 1, 7, 1, 6, 7, 8, 4, 8, 9, 8, 2,
      1, 0, 3, 6, 8, 8, 7, 1, 8, 6, 3, 6, 0, 5, 6, 9, 9, 8, 7, 3, 0, 7, 2, 3,
      0, 5, 0, 0, 0, 6, 3, 8, 7, 4, 0, 9, 1, 5, 3, 5, 6, 4, 9, 8, 4, 3, 8, 7,
      3, 1, 2, 4, 7, 3, 3, 9, 7, 2, 7, 3, 1, 6, 9, 6, 1, 5, 1, 4, 0, 0, 3, 1,
      7, 1, 5, 3, 8, 5, 3, 9, 8, 0, 7, 4, 1, 2, 6, 2, 3, 8, 5, 6, 5, 5, 9, 1,
      1, 7, 1, 0, 2, 6, 6, 5, 8, 5, 5, 6, 6, 8, 6, 7, 6, 8, 1, 8, 7, 0, 3, 9,
      5, 6, 0, 3, 1, 0, 6, 2, 4, 9, 3, 1, 9, 4, 5, 2, 7, 1, 5, 9, 1, 4, 9, 2,
      4, 5, 5, 3, 2, 9, 3, 0, 5, 4, 5, 6, 5, 4, 4, 4, 0, 1, 1, 2, 7, 4, 8, 0,
      1, 2, 9, 7, 0, 9, 9, 9, 9, 5, 4, 1, 9, 3, 1, 9, 8, 9, 4, 0, 9, 0, 8, 0,
      4, 1, 6, 5, 6, 3, 3, 2, 4, 5, 2, 4, 7, 5, 7, 1, 4, 7, 8, 6, 9, 0, 1, 4,
      7, 2, 6, 7, 8, 0, 1, 5, 9, 3, 5, 5, 2, 3, 8, 6, 1, 1, 5, 5, 0, 1, 3, 4,
      8, 0, 3, 5, 2, 6, 4, 9, 3, 4, 7, 2, 0, 1, 9, 3, 7, 9, 0, 2, 6, 8, 1, 0,
      7, 1, 0, 7, 4, 9, 1, 7, 0, 3, 3, 3, 2, 2, 2, 6, 8, 4, 4, 7, 5, 3, 3, 3,
      5, 7, 2, 0, 8, 3, 2, 4, 3, 1, 9, 3, 6, 0, 9, 2, 3, 8, 2, 8, 9, 3, 4, 5,
      8, 3, 6, 8, 0, 6, 0, 1, 0, 6, 0, 1, 1, 5, 0, 6, 1, 6, 9, 8, 0, 9, 7, 5,
      3, 0, 7, 8, 3, 4, 2, 2, 7, 7, 3, 1, 8, 3, 2, 9, 2, 4, 7, 9, 0, 4, 9, 8,
      2, 5, 2, 4, 7, 3, 0, 7, 7, 6, 3, 7, 5, 9, 2, 7, 2, 4, 7, 8, 7, 4, 6, 5,
      6, 0, 8, 4, 7, 7, 8, 2, 0, 3, 7, 3, 4, 4, 6, 9, 6, 9, 9, 5, 3, 3, 6, 4,
      7, 0, 1, 7, 9, 7, 2, 6, 7, 7, 7, 1, 7, 5, 8, 5, 1, 2, 5, 6, 6, 0, 5, 5,
      1, 1, 9, 9, 1, 3, 1, 5, 0, 4, 8, 9, 1, 1, 0, 1, 4, 5, 1, 0, 3, 7, 8, 6,
      2, 7, 3, 8, 1, 6, 7, 2, 5, 0, 9, 5, 5, 8, 3, 7, 3, 8, 9, 7, 3, 3, 5, 9,
      8, 9, 9, 3, 6, 6, 4, 8, 0, 9, 9, 4, 1, 1, 6, 4, 2, 0, 5, 7, 0, 2, 6, 3,
      7, 0, 9, 0, 2, 7, 9, 2, 4, 2, 7, 6, 7, 5, 4, 4, 5, 6, 5, 2, 2, 9, 0, 8,
      7, 5, 3, 8, 6, 8, 2, 5, 0, 6, 4, 1, 9, 7, 1, 8, 2, 6, 5, 5, 3, 3, 4, 4,
      7, 2, 6, 5, 6, 2, 5
    >>

\* 2^1024 - 2^970, half-way between the greatest double and 2^1024
INF_FROM ==
    <<
      1, 7, 9, 7, 6, 9, 3, 1, 3, 4, 8, 6, 2, 3, 1, 5, 8, 0, 7, 9, 3, 7, 2, 8,
      9, 7, 1, 4, 0, 5, 3, 0, 3, 4, 1, 5, 0, 7, 9, 9, 3, 4, 1, 3, 2, 7, 1, 0,
      0, 3, 7, 8, 2, 6, 9, 3, 6, 1, 7, 3, 7, 7, 8, 9, 8, 0, 4, 4, 4, 9, 6, 8,
      2, 9, 2, 7, 6, 4, 7, 5, 0, 9, 4, 6, 6, 4, 9, 0, 1, 7, 9, 7, 7, 5, 8, 7,
      2, 0, 7, 0, 9, 6, 3, 3, 0, 2, 8, 6, 4, 1, 6, 6, 9, 2, 8, 8, 7, 9, 1, 0,
      9, 4, 6, 5, 5, 5, 5, 4, 7, 8, 5, 1, 9, 4, 0, 4, 0, 2, 6, 3, 0, 6, 5, 7,
      4, 8, 8, 6, 7, 1, 5, 0, 5, 8, 2, 0, 6, 8, 1, 9, 0, 8, 9, 0, 2, 0, 0, 0,
      7, 0, 8, 3, 8, 3, 6, 7, 6, 2, 7, 3, 8, 5, 4, 8, 4, 5, 8, 1, 7, 7, 1, 1,
      5, 3, 1, 7, 6, 4, 4, 7, 5, 7, 3, 0, 2, 7, 0, 0, 6, 9, 8, 5, 5, 5, 7, 1,
      3, 6, 6, 9, 5, 9, 6, 2, 2, 8, 4, 2, 9, 1, 4, 8, 1, 9, 8, 6, 0, 8, 3, 4,
      9, 3, 6, 4, 7, 5, 2, 9, 2, 7, 1, 9, 0, 7, 4, 1, 6, 8, 4, 4, 4, 3, 6, 5,
      5, 1, 0, 7, 0, 4, 3, 4, 2, 7, 1, 1, 5, 5, 9, 6, 9, 9, 5, 0, 8, 0, 9, 3,
      0, 4, 2, 8, 8, 0, 1, 7, 7, 9, 0, 4, 1, 7, 4, 4, 9, 7, 7, 9, 2
    >>

\* the natural of an int
RECURSIVE IntDigits(_)
IntDigits(n) == IF n = 0 THEN <<>> ELSE Append(IntDigits(n \div 10), n % 10)

\* a < b of two naturals
DigitsLess(a, b) ==
    \/ Len(a) < Len(b)
    \/ /\ Len(a) = Len(b)
       /\ \E i \in 1..Len(a) :
             a[i] < b[i] /\ \A j \in 1..(i - 1) : a[j] = b[j]

\* x + 1
RECURSIVE Inc(_)
Inc(x) ==
    IF x = <<>> THEN <<1>>
    ELSE IF x[Len(x)] < 9 THEN SubSeq(x, 1, Len(x) - 1) \o <<x[Len(x)] + 1>>
    ELSE Inc(SubSeq(x, 1, Len(x) - 1)) \o <<0>>

\* the sum of the products a[i] * b[j + 1 - i] from i on: the column j of
\* the long multiplication of a and b
RECURSIVE Column(_, _, _, _, _, _)
Column(a, la, b, lb, j, i) ==
    IF i > la THEN 0
    ELSE (IF 1 <= j + 1 - i /\ j + 1 - i <= lb THEN a[i] * b[j + 1 - i] ELSE 0)
         + Column(a, la, b, lb, j, i + 1)

\* the digits of the columns lo..hi with the carry taken in, and the carry
\* out: the lower half first, then the higher one
RECURSIVE CarryOver(_, _, _, _)
CarryOver(cols, lo, hi, carry) ==
    IF lo = hi
    THEN [digits |-> <<(cols[lo] + carry) % 10>>, carry |-> (cols[lo] + carry) \div 10]
    ELSE LET mid == (lo + hi) \div 2
             low == CarryOver(cols, mid + 1, hi, carry)
             high == IF low.carry >= 0 THEN CarryOver(cols, lo, mid, low.carry)
                     ELSE CarryOver(cols, lo, mid, 0)
         IN  [digits |-> high.digits \o low.digits, carry |-> high.carry]

\* a * b of two naturals, a the short one
MulDigits(a, b) ==
    LET la == Len(a)
        lb == Len(b)
        cols == [j \in 1..(la + lb - 1) |-> Column(a, la, b, lb, j, 1)]
        r == CarryOver(cols, 1, la + lb - 1, 0)
    IN  IF a = <<>> \/ b = <<>> THEN <<>> ELSE IntDigits(r.carry) \o r.digits

\* x / 10^d (d > 0) to the nearest natural, a tie to the even one
DivPow10(x, d) ==
    LET len == Len(x)
        q == IF len > d THEN SubSeq(x, 1, len - d) ELSE <<>>
        first == IF len >= d THEN x[len - d + 1] ELSE 0
        rest == len >= d /\ \E i \in (len - d + 2)..len : x[i] # 0
        odd == q # <<>> /\ q[Len(q)] % 2 = 1
    IN  IF first > 5 \/ (first = 5 /\ (rest \/ odd)) THEN Inc(q) ELSE q

\* the doubles below 2^-1021 are the multiples of 2^-1074: the k for which
\* k * 2^-1074 is the double nearest to sig / 10^d
GridOf(sig, d) == DivPow10(MulDigits(sig, TWO_1074), d)

\* repr of the double k * 2^-1074 = v / 10^1074: v rounded to its first n
\* digits, for the least n from which float() reads k again
RECURSIVE Shortest(_, _, _)
Shortest(k, v, n) ==
    LET m == DivPow10(v, Len(v) - n)
        dec == 1074 - (Len(v) - n)
    IN  IF GridOf(m, dec) = k THEN [digits |-> m, dec |-> dec]
        ELSE Shortest(k, v, n + 1)

\* the double nearest to sign * sig / 10^d, for a string of digits sig with
\* sig / 10^d < 1e-307: a multiple of 2^-1074 below 2^-1021 (2^53 of them),
\* where a double has less than 53 bits
NearZero(sign, sig, d) ==
    LET k == GridOf([i \in 1..Len(sig) |-> DigitVal(sig[i])], d)
        r == Shortest(k, MulDigits(k, FIVE_1074), 1)
        two53 == <<9, 0, 0, 7, 1, 9, 9, 2, 5, 4, 7, 4, 0, 9, 9, 2>>
    IN  IF k = <<>> THEN (IF sign < 0 THEN NegZero ELSE Zero)
        ELSE IF ~DigitsLess(k, two53) THEN Flt(sign * StrToInt(sig), d)
        ELSE Flt(sign * StrToInt([i \in 1..Len(r.digits) |-> 48 + r.digits[i]]), r.dec)

\* the decimal part of float(): u is digits [. digits] [e [sign] digits],
\* with a digit in the mantissa.  A decimal of 309 digits is read as inf
\* from INF_FROM on.
ParseDecimal(neg, u) ==
    LET epos == FirstOf(u, CharSet("eE"))
        mant == IF epos = 0 THEN u ELSE SubSeq(u, 1, epos - 1)
        expo == IF epos = 0 THEN <<>> ELSE SubSeq(u, epos + 1, Len(u))
        eneg == expo # <<>> /\ expo[1] = Codes["-"]
        edig == IF expo # <<>> /\ expo[1] \in CharSet("+-") THEN Tail(expo) ELSE expo
        dot == FirstOf(mant, CharSet("."))
        ip == IF dot = 0 THEN mant ELSE SubSeq(mant, 1, dot - 1)
        fp == IF dot = 0 THEN <<>> ELSE SubSeq(mant, dot + 1, Len(mant))
        sig == DropZeros(ip \o fp)
        esig == DropZeros(edig)
        sign == IF neg THEN -1 ELSE 1
        zero == IF neg THEN NegZero ELSE Zero
    IN  IF \/ ~AllDigits(ip) \/ ~AllDigits(fp) \/ ip \o fp = <<>>
           \/ (epos # 0 /\ (edig = <<>> \/ ~AllDigits(edig)))
        THEN NotAFloat
        ELSE IF sig = <<>> THEN IsFloat(zero)
        ELSE IF Len(esig) > 6 THEN IsFloat(IF eneg THEN zero ELSE Inf(sign))
        ELSE LET e == IF eneg THEN -StrToInt(esig) ELSE StrToInt(esig)
                 shift == e - Len(fp)
                 adj == Len(sig) - 1 + shift
                 digits == [i \in 1..(Len(sig) + shift) |->
                               IF i <= Len(sig) THEN DigitVal(sig[i]) ELSE 0]
             IN  IF adj >= 309 THEN IsFloat(Inf(sign))
                 ELSE IF adj <= -325 THEN IsFloat(zero)
                 ELSE IF adj <= -308 THEN IsFloat(NearZero(sign, sig, -shift))
                 ELSE IF adj = 308 /\ shift >= 0 /\ ~DigitsLess(digits, INF_FROM)
                 THEN IsFloat(Inf(sign))
                 ELSE IF shift >= 0 THEN IsFloat(Flt(sign * StrToInt(sig) * Pow10(shift), 0))
                 ELSE IsFloat(Flt(sign * StrToInt(sig), -shift))

\* the ASCII form float() parses: a character below U+007F as it is, white
\* space as " ", a decimal digit as its ASCII digit, any other as "?"
RECURSIVE ToAscii(_)
ToAscii(s) ==
    IF s = <<>> THEN <<>>
    ELSE <<(IF s[1] < 127 THEN s[1]
            ELSE IF s[1] \in SpaceSet THEN Codes[" "]
            ELSE IF IsDigit(s[1]) THEN 48 + DigitVal(s[1])
            ELSE Codes["?"])>> \o ToAscii(Tail(s))

\* float(s) of a str: the white space of ASCII stripped from the ASCII
\* form (tab, LF, VT, FF, CR, space), a sign, then inf, infinity or nan in
\* any case, or a decimal whose digits may be grouped with "_"
ParseFloat(s) ==
    LET spaces == {9, 10, 11, 12, 13, 32}
        t == RStrip(LStrip(ToAscii(s), spaces), spaces)
        signed == t # <<>> /\ t[1] \in CharSet("+-")
        neg == t # <<>> /\ t[1] = Codes["-"]
        body == IF signed THEN Tail(t) ELSE t
        word == Lower(body)
    IN  IF word \in {U("inf"), U("infinity")} THEN IsFloat(Inf(IF neg THEN -1 ELSE 1))
        ELSE IF word = U("nan") THEN IsFloat(NaN)
        ELSE IF ~UnderscoresOK(body) THEN NotAFloat
        ELSE ParseDecimal(neg, DropChars(body, CharSet("_")))

\* to_float(v): float(v), 0.0 when float() raises
to_float(v) ==
    CASE v.ty = "float" -> v
      [] v.ty \in {"num", "bool"} -> Flt(v.n, 0)
      [] v.ty = "str" -> ParseFloat(v.s).val
      [] OTHER -> Zero

\* the sign of a - b for two floats that are not nan: -1, 0 or 1
FCmp(a, b) ==
    IF a.k = "inf" \/ b.k = "inf"
    THEN LET sa == IF a.k = "inf" THEN a.n ELSE 0
             sb == IF b.k = "inf" THEN b.n ELSE 0
         IN  IF sa < sb THEN -1 ELSE IF sa > sb THEN 1 ELSE 0
    ELSE LET dd == IF a.d > b.d THEN a.d ELSE b.d
             x == a.n * Pow10(dd - a.d)
             y == b.n * Pow10(dd - b.d)
         IN  IF x < y THEN -1 ELSE IF x > y THEN 1 ELSE 0

\* a == b and a < b of two floats: both false when one is nan
FEq(a, b) == a.k # "nan" /\ b.k # "nan" /\ FCmp(a, b) = 0
FLess(a, b) == a.k # "nan" /\ b.k # "nan" /\ FCmp(a, b) = -1

(***************************************************************************)
(* The double behind a decimal.  A positive binary number is [top, bits]:  *)
(* bits[i] weighs 2^(top - i) and bits[1] = 1; no bits stands for zero.    *)
(* round() needs it to decide a decimal that lies on a tie.                *)
(***************************************************************************)
Zeros(len) == [i \in 1..len |-> 0]

\* the bits of a positive int, the highest first
RECURSIVE IntBits(_)
IntBits(i) == IF i = 0 THEN <<>> ELSE Append(IntBits(i \div 2), i % 2)

\* the next count binary digits of r / den (0 <= r < den) and the
\* remainder left: the first half of them, then the others
RECURSIVE FracBits(_, _, _)
FracBits(r, den, count) ==
    IF count = 0 THEN [bits |-> <<>>, r |-> r]
    ELSE IF count = 1
    THEN (IF 2 * r >= den THEN [bits |-> <<1>>, r |-> 2 * r - den]
          ELSE [bits |-> <<0>>, r |-> 2 * r])
    ELSE LET high == FracBits(r, den, count \div 2)
             low == FracBits(high.r, den, count - count \div 2)
         IN  IF high.r = 0 THEN [bits |-> high.bits \o Zeros(count - count \div 2), r |-> 0]
             ELSE [bits |-> high.bits \o low.bits, r |-> low.r]

\* r / den (0 < r < den) without its z leading binary zeros
RECURSIVE SkipZeros(_, _, _)
SkipZeros(r, den, z) ==
    IF 2 * r >= den THEN [z |-> z, r |-> r] ELSE SkipZeros(2 * r, den, z + 1)

\* the first count bits of num / den > 0, and whether a lower bit is set
Expand(num, den, count) ==
    LET ib == IntBits(num \div den)
        sk == SkipZeros(num % den, den, 0)
        f == IF ib # <<>> THEN FracBits(num % den, den, count - Len(ib))
             ELSE FracBits(sk.r, den, count)
    IN  [top |-> IF ib # <<>> THEN Len(ib) ELSE -sk.z, bits |-> ib \o f.bits,
         sticky |-> f.r > 0]

\* a + b + carry (minus = FALSE) or a - b - carry (minus = TRUE, the carry
\* a borrow) over the bits lo..hi of two bit strings, and the carry out:
\* the lower half first, then the higher one
RECURSIVE AddRange(_, _, _, _, _, _)
AddRange(a, b, lo, hi, carry, minus) ==
    IF lo > hi THEN [bits |-> <<>>, carry |-> carry]
    ELSE IF lo = hi
    THEN LET v == IF minus THEN a[lo] - b[lo] - carry + 2 ELSE a[lo] + b[lo] + carry
         IN  [bits |-> <<v % 2>>,
              carry |-> IF minus THEN 1 - v \div 2 ELSE v \div 2]
    ELSE LET mid == (lo + hi) \div 2
             low == AddRange(a, b, mid + 1, hi, carry, minus)
             high == IF low.carry = 1 THEN AddRange(a, b, lo, mid, 1, minus)
                     ELSE AddRange(a, b, lo, mid, 0, minus)
         IN  [bits |-> high.bits \o low.bits, carry |-> high.carry]

\* a binary number rounded to the 53 bits of a double: to nearest, a tie
\* to even
RoundDouble(x) ==
    IF Len(x.bits) <= 53
    THEN [top |-> x.top, bits |-> x.bits \o Zeros(53 - Len(x.bits))]
    ELSE LET m == SubSeq(x.bits, 1, 53)
             lower == x.sticky \/ \E j \in 55..Len(x.bits) : x.bits[j] = 1
             up == x.bits[54] = 1 /\ (lower \/ m[53] = 1)
             r == AddRange(<<0>> \o m, Zeros(54), 1, 54, 1, FALSE).bits
         IN  IF ~up THEN [top |-> x.top, bits |-> m]
             ELSE IF r[1] = 1 THEN [top |-> x.top + 1, bits |-> SubSeq(r, 1, 53)]
             ELSE [top |-> x.top, bits |-> Tail(r)]

\* the double nearest to num / den >= 0
ToDouble(num, den) ==
    IF num = 0 THEN [top |-> 0, bits |-> <<>>]
    ELSE RoundDouble(Expand(num, den, 54))

\* the bits of x from weight 2^(top - 1) on, len of them
Pad(x, top, len) ==
    IF x.bits = <<>> THEN Zeros(len)
    ELSE Zeros(top - x.top) \o x.bits \o Zeros(len - (top - x.top) - 53)

\* x > y, x = y or x < y of two doubles that are not negative: 1, 0, -1
DoubleCmp(x, y) ==
    IF x.bits = <<>> \/ y.bits = <<>>
    THEN (IF x.bits # <<>> THEN 1 ELSE IF y.bits # <<>> THEN -1 ELSE 0)
    ELSE IF x.top # y.top THEN (IF x.top > y.top THEN 1 ELSE -1)
    ELSE LET diff == {i \in 1..53 : x.bits[i] # y.bits[i]}
             i == CHOOSE m \in diff : \A o \in diff : m <= o
         IN  IF diff = {} THEN 0 ELSE IF x.bits[i] = 1 THEN 1 ELSE -1

\* x + y, or x - y (x >= y), of two doubles that are not negative, as the
\* double it is rounded to
DoubleSum(x, y, minus) ==
    LET xt == IF x.bits = <<>> THEN y.top ELSE x.top
        yt == IF y.bits = <<>> THEN x.top ELSE y.top
        top == (IF xt > yt THEN xt ELSE yt) + 1
        len == top - (IF xt < yt THEN xt ELSE yt) + 53
        r == AddRange(Pad(x, top, len), Pad(y, top, len), 1, len, 0, minus).bits
        ones == {i \in 1..len : r[i] = 1}
        lead == CHOOSE m \in ones : \A o \in ones : m <= o
    IN  IF ones = {} THEN [top |-> 0, bits |-> <<>>]
        ELSE RoundDouble([top |-> top - (lead - 1), bits |-> SubSeq(r, lead, len),
                          sticky |-> FALSE])

\* where the double x lies against num / den > 0: "up" above it, "down"
\* below it, "exact" on it
SideOf(x, num, den) ==
    IF x.bits = <<>> THEN "down"
    ELSE LET e == Expand(num, den, 53)
             diff == {i \in 1..53 : x.bits[i] # e.bits[i]}
             i == CHOOSE m \in diff : \A o \in diff : m <= o
         IN  IF x.top # e.top THEN (IF x.top > e.top THEN "up" ELSE "down")
             ELSE IF diff = {} THEN (IF e.sticky THEN "down" ELSE "exact")
             ELSE IF x.bits[i] = 1 THEN "up" ELSE "down"

\* the double of the decimal x (not 0) against x, the sign left out
SideOfDouble(x) == SideOf(ToDouble(Abs(x.n), Pow10(x.d)), Abs(x.n), Pow10(x.d))

\* the double a + b of the doubles of two decimals against their exact
\* sum (not 0, n / 10^d), the sign left out
SideOfSum(a, b, n, d) ==
    LET flip == IF n < 0 THEN -1 ELSE 1
        da == ToDouble(Abs(a.n), Pow10(a.d))
        db == ToDouble(Abs(b.n), Pow10(b.d))
        sum == IF flip * a.n >= 0 /\ flip * b.n >= 0 THEN DoubleSum(da, db, FALSE)
               ELSE IF DoubleCmp(da, db) >= 0 THEN DoubleSum(da, db, TRUE)
               ELSE DoubleSum(db, da, TRUE)
    IN  SideOf(sum, Abs(n), Pow10(d))

\* the decimal n / 10^d (not 0, d > 2) to the nearest hundredth; a decimal
\* on a tie goes where its double lies (side), to the even hundredth when
\* the double is exact
RoundTo2(n, d, side) ==
    LET mag == Abs(n)
        unit == Pow10(d - 2)
        q == mag \div unit
        r == mag % unit
        up == \/ 2 * r > unit
              \/ 2 * r = unit /\ (side = "up" \/ (side = "exact" /\ q % 2 = 1))
        h == IF up THEN q + 1 ELSE q
    IN  IF h = 0 THEN (IF n < 0 THEN NegZero ELSE Zero)
        ELSE Flt((IF n < 0 THEN -h ELSE h), 2)

\* a decimal with the decimals d lies half-way between two hundredths
OnTie(n, d) == d > 2 /\ 2 * (Abs(n) % Pow10(d - 2)) = Pow10(d - 2)

\* round(x, 2) of a float; a decimal with twelve decimals or more is an
\* int over 10^12 or more: less than 0.005
Round2(x) ==
    IF x.k # "fin" \/ x.d <= 2 THEN x
    ELSE IF x.d >= 12 THEN (IF x.n < 0 THEN NegZero ELSE Zero)
    ELSE RoundTo2(x.n, x.d, IF OnTie(x.n, x.d) THEN SideOfDouble(x) ELSE "none")

\* round(a + b, 2) of two floats; a decimal of twelve decimals or more
\* (less than 0.005) leaves a hundredth that is not 0 where it is, and two
\* of them sum to less than 0.005, with the sign of the greater
SumRound2(a, b) ==
    IF a.k = "nan" \/ b.k = "nan" THEN NaN
    ELSE IF a.k = "inf" THEN (IF b.k = "inf" /\ b.n # a.n THEN NaN ELSE a)
    ELSE IF b.k = "inf" THEN b
    ELSE IF a.k = "nzero" /\ b.k = "nzero" THEN NegZero
    ELSE IF a.n = 0 /\ b.n # 0 THEN Round2(b)
    ELSE IF b.n = 0 /\ a.n # 0 THEN Round2(a)
    ELSE IF a.d >= 12 /\ b.d <= 2 THEN b
    ELSE IF b.d >= 12 /\ a.d <= 2 THEN a
    ELSE IF a.d >= 12 /\ b.d >= 12
    THEN LET dd == IF a.d > b.d THEN a.d ELSE b.d
             x == IntDigits(Abs(a.n)) \o [i \in 1..(dd - a.d) |-> 0]
             y == IntDigits(Abs(b.n)) \o [i \in 1..(dd - b.d) |-> 0]
         IN  IF (a.n < 0) = (b.n < 0) THEN Round2(a)
             ELSE IF DigitsLess(y, x) THEN Round2(a)
             ELSE IF DigitsLess(x, y) THEN Round2(b)
             ELSE Zero
    ELSE LET dd == IF a.d > b.d THEN a.d ELSE b.d
             sum == Flt(a.n * Pow10(dd - a.d) + b.n * Pow10(dd - b.d), dd)
         IN  IF sum.d <= 2 THEN sum
             ELSE IF sum.d >= 12 THEN (IF sum.n < 0 THEN NegZero ELSE Zero)
             ELSE RoundTo2(sum.n, sum.d,
                           IF OnTie(sum.n, sum.d) THEN SideOfSum(a, b, sum.n, sum.d)
                           ELSE "none")

\* str(x) of a float: repr with the fewest digits; the exponent form is
\* taken below 1e-4 (and from 1e16 on)
FloatStr(x) ==
    CASE x.k = "nan" -> U("nan")
      [] x.k = "inf" -> IF x.n < 0 THEN U("-inf") ELSE U("inf")
      [] x.k = "nzero" -> U("-0.0")
      [] OTHER ->
            LET sgn == IF x.n < 0 THEN U("-") ELSE <<>>
                digs == IntToStr(Abs(x.n))
                len == Len(digs)
                e == x.d - (len - 1)
                whole == IF len > x.d THEN SubSeq(digs, 1, len - x.d) ELSE U("0")
                frac == IF len > x.d THEN SubSeq(digs, len - x.d + 1, len)
                        ELSE [i \in 1..(x.d - len) |-> Codes["0"]] \o digs
            IN  IF x.d = 0 THEN sgn \o digs \o U(".0")
                ELSE IF e <= 4 THEN sgn \o whole \o U(".") \o frac
                ELSE sgn \o <<digs[1]>>
                         \o (IF len > 1 THEN U(".") \o Tail(digs) ELSE <<>>)
                         \o U("e-") \o (IF e < 10 THEN U("0") ELSE <<>>) \o IntToStr(e)

\* str(v) of a value
PyStr(v) == CASE v.ty = "None" -> U("None")
              [] v.ty = "str" -> v.s
              [] v.ty = "bool" -> IF v.n = 1 THEN U("True") ELSE U("False")
              [] v.ty = "float" -> FloatStr(v)
              [] OTHER -> IntToStr(v.n)

(***************************************************************************)
(* Records "W-L-T"                                                         *)
(***************************************************************************)
\* re.findall(r"\d+", s): the maximal runs of digits of s, in order
RECURSIVE DigitRuns(_, _, _)
DigitRuns(s, run, out) ==
    IF s = <<>> THEN (IF run = <<>> THEN out ELSE Append(out, run))
    ELSE IF IsDigit(s[1]) THEN DigitRuns(Tail(s), Append(run, s[1]), out)
    ELSE DigitRuns(Tail(s), <<>>, IF run = <<>> THEN out ELSE Append(out, run))

\* record_to_list(s) of a str: ([int(n) for n in findall] + [0, 0, 0])[:3]
record_to_list(s) ==
    LET runs == DigitRuns(s, <<>>, <<>>)
        nums == [k \in 1..Len(runs) |-> StrToInt(runs[k])]
    IN  SubSeq(nums \o <<0, 0, 0>>, 1, 3)

\* list_to_record(lst): "-".join(map(str, lst))
RECURSIVE list_to_record(_)
list_to_record(lst) ==
    IF lst = <<>> THEN <<>>
    ELSE IF Len(lst) = 1 THEN IntToStr(lst[1])
    ELSE IntToStr(lst[1]) \o U("-") \o list_to_record(Tail(lst))

\* [a + b for a, b in zip(x, y)]
ZipAdd(x, y) ==
    [k \in 1..(IF Len(x) < Len(y) THEN Len(x) ELSE Len(y)) |-> x[k] + y[k]]

(***************************************************************************)
(* dict access on a week-1 row                                             *)
(***************************************************************************)
HasKey(wk, k) == \E e \in 1..Len(wk) : wk[e].k = k

Item(wk, k) == wk[CHOOSE e \in 1..Len(wk) : wk[e].k = k].v

\* wk.get(k, default)
Get(wk, k, default) == IF HasKey(wk, k) THEN Item(wk, k) ELSE default

\* needle in hay
Contains(hay, needle) ==
    \E p \in 1..(Len(hay) - Len(needle) + 1) :
        SubSeq(hay, p, p + Len(needle) - 1) = needle

\* c.lower().replace("_", "").replace(" ", "")
Small(c) == DropChars(Lower(c), CharSet("_ "))

\* find_wk_value(wk, candidates, default)
find_wk_value(wk, candidates, default) ==
    LET exact == {c \in 1..Len(candidates) :
                     HasKey(wk, candidates[c]) /\ NotBlank(Item(wk, candidates[c]))}
        low_candidates == [c \in 1..Len(candidates) |-> Small(candidates[c])]
        smalls == [e \in 1..Len(wk) |-> Small(wk[e].k)]
        fuzzy == {e \in 1..Len(wk) :
                     \E c \in 1..Len(candidates) : Contains(smalls[e], low_candidates[c])}
        First(S) == CHOOSE m \in S : \A o \in S : m <= o
    IN  IF exact # {} THEN Item(wk, candidates[First(exact)])
        ELSE IF fuzzy # {} THEN wk[First(fuzzy)].v
        ELSE default

(***************************************************************************)
(* League objects                                                          *)
(***************************************************************************)
\* a Team of league.teams; points_for and points_against are Python numbers
Team(id, name, w, l, t, pf, pa, standing) ==
    [team_id |-> id, team_name |-> name, wins |-> w, losses |-> l, ties |-> t,
     points_for |-> pf, points_against |-> pa, standing |-> standing]

\* a BoxScore: the teams are team ids (None: no team on that side), the
\* scores are numbers or None
Box(ht, hs, at, as) ==
    [home_team |-> ht, home_score |-> hs, away_team |-> at, away_score |-> as]

\* l.box_scores(week): a list of box scores, or an exception
Fetched(boxes) == [ok |-> TRUE, boxes |-> boxes]
FetchFailed == [ok |-> FALSE, boxes |-> <<>>]

TeamIds(ts) == {ts[k].team_id : k \in 1..Len(ts)}

(***************************************************************************)
(* get_median_records                                                      *)
(***************************************************************************)
WeekCap == 14

Min(a, b) == IF a < b THEN a ELSE b

\* max_week = min(getattr(l, "current_week", 0) + 1, 14)
max_week(cw) == Min(cw + 1, WeekCap)

\* ((b.home_team, b.home_score), (b.away_team, b.away_score)) for b in box_scores
RECURSIVE Sides(_)
Sides(boxes) ==
    IF boxes = <<>> THEN <<>>
    ELSE << [team |-> boxes[1].home_team, score |-> boxes[1].home_score],
            [team |-> boxes[1].away_team, score |-> boxes[1].away_score] >>
         \o Sides(Tail(boxes))

\* [s for b in box_scores for s in (b.home_score, b.away_score) if s is not None]
RECURSIVE NonNull(_)
NonNull(sides) ==
    IF sides = <<>> THEN <<>>
    ELSE (IF sides[1].score = None THEN <<>> ELSE <<sides[1].score.n>>)
         \o NonNull(Tail(sides))

WeekScores(boxes) == NonNull(Sides(boxes))

RECURSIVE Insert(_, _)
Insert(sorted, x) ==
    IF sorted = <<>> THEN <<x>>
    ELSE IF x < sorted[1] THEN <<x>> \o sorted
    ELSE <<sorted[1]>> \o Insert(Tail(sorted), x)

\* scores.sort()
RECURSIVE SortAsc(_)
SortAsc(scores) ==
    IF scores = <<>> THEN <<>>
    ELSE Insert(SortAsc(SubSeq(scores, 1, Len(scores) - 1)), scores[Len(scores)])

\* twice the median of the sorted scores: mid = len // 2 (0-based), the mean
\* of scores[mid - 1] and scores[mid] for an even count, else scores[mid]
MedianX2(sorted) ==
    LET mid == Len(sorted) \div 2
    IN  IF Len(sorted) % 2 = 0 THEN sorted[mid] + sorted[mid + 1]
        ELSE 2 * sorted[mid + 1]

\* SideKey with a strict comparison: a score equal to the median loses
SideKeyStrict(score, m2) == IF 2 * score > m2 THEN "wins" ELSE "losses"

\* key = "wins" if score >= median else "losses"
SideKey(score, m2) == IF 2 * score >= m2 THEN "wins" ELSE "losses"

\* the tally loop of one week over its sides; median_records[team.team_id]
\* raises KeyError for a team that is not in l.teams, the increments made
\* before it stay
RECURSIVE TallySides(_, _, _)
TallySides(records, sides, m2) ==
    IF sides = <<>> THEN [exc |-> "", val |-> records]
    ELSE LET sd == sides[1]
         IN  IF sd.team = None \/ sd.score = None
             THEN TallySides(records, Tail(sides), m2)
             ELSE IF sd.team.n \notin DOMAIN records
             THEN [exc |-> "KeyError", val |-> records]
             ELSE LET key == SideKey(sd.score.n, m2)
                      id == sd.team.n
                  IN  TallySides([records EXCEPT ![id][key] = @ + 1], Tail(sides), m2)

\* the median of one week's list of box scores, doubled
WeekMedianX2(boxes) == MedianX2(SortAsc(WeekScores(boxes)))

\* the body of the week loop after a successful fetch with at least one score
ScoreWeek(records, boxes) == TallySides(records, Sides(boxes), WeekMedianX2(boxes))

\* ProcessWeek where a failed fetch drops the tally gathered so far
ProcessWeekFailResets(records, fetched) ==
    IF ~fetched.ok
    THEN [exc |-> "", val |-> [id \in DOMAIN records |-> [wins |-> 0, losses |-> 0]]]
    ELSE IF WeekScores(fetched.boxes) = <<>> THEN [exc |-> "", val |-> records]
    ELSE ScoreWeek(records, fetched.boxes)

\* one iteration of the week loop: the tally after it
ProcessWeek(records, fetched) ==
    IF ~fetched.ok THEN [exc |-> "", val |-> records]        \* except Exception: continue
    ELSE IF WeekScores(fetched.boxes) = <<>>
    THEN [exc |-> "", val |-> records]                       \* if not scores: continue
    ELSE ScoreWeek(records, fetched.boxes)

\* the local variable median after one iteration
ProcessMedian(m2, fetched) ==
    IF fetched.ok /\ WeekScores(fetched.boxes) # <<>> THEN WeekMedianX2(fetched.boxes)
    ELSE m2

ZeroRecords(ts) == [id \in TeamIds(ts) |-> [wins |-> 0, losses |-> 0]]

(***************************************************************************)
(* main: snapshot build                                                    *)
(***************************************************************************)
\* wl_record = f"{t.wins}-{t.losses}-{t.ties}"
wl_record(t) ==
    IntToStr(t.wins) \o U("-") \o IntToStr(t.losses) \o U("-") \o IntToStr(t.ties)

\* med = median_records.get(t.team_id, {"wins": 0, "losses": 0})
MedOf(records, t) ==
    IF t.team_id \in DOMAIN records THEN records[t.team_id]
    ELSE [wins |-> 0, losses |-> 0]

\* med_str = f"{med['wins']}-{med['losses']}-0"
med_str(med) == IntToStr(med.wins) \o U("-") \o IntToStr(med.losses) \o U("-0")

\* the row appended to teams_data for team t
BuildRow(t, records) ==
    LET wl == wl_record(t)
        ms == med_str(MedOf(records, t))
        overall == ZipAdd(record_to_list(wl), record_to_list(ms))
    IN  [team_id |-> Num(t.team_id),
         Rank |-> Num(t.standing),
         Team |-> Str(t.team_name),
         Overall_Record |-> Str(list_to_record(overall)),
         Matchup_Record |-> Str(wl),
         Median_Score_Record |-> Str(ms),
         GB |-> Lit("-"),
         PF |-> Round2(to_float(t.points_for)),
         PA |-> Round2(to_float(t.points_against))]

BuildRows(ts, records) == [k \in 1..Len(ts) |-> BuildRow(ts[k], records)]

\* record_to_list(x) of a row field: record_to_list applies str() first
RecordOf(v) == record_to_list(PyStr(v))

(***************************************************************************)
(* main: week-1 lookup                                                     *)
(***************************************************************************)
NameKeys == <<U("Team"), U("team"), U("team_name"), U("Team Name"), U("teamName")>>

\* the normalized names gathered from the name keys of wk, in key order,
\* after out; normalize_name(val) raises AttributeError on a truthy val that
\* is not a str (it has no lower())
RECURSIVE NameCandidates(_, _, _)
NameCandidates(wk, keys, out) ==
    IF keys = <<>> THEN [exc |-> "", val |-> out]
    ELSE LET val == Get(wk, keys[1], None)
         IN  IF ~Truthy(val) THEN NameCandidates(wk, Tail(keys), out)
             ELSE IF val.ty # "str" THEN [exc |-> "AttributeError", val |-> out]
             ELSE NameCandidates(wk, Tail(keys), Append(out, normalize_name(val.s)))

\* candidates of wk: the names, then the team_id if present and not blank
Candidates(wk) ==
    LET names == NameCandidates(wk, NameKeys, <<>>)
    IN  IF names.exc # "" THEN names
        ELSE [exc |-> "",
              val |-> names.val
                      \o (IF HasKey(wk, U("team_id")) /\ NotBlank(Item(wk, U("team_id")))
                          THEN <<normalize_name(PyStr(Item(wk, U("team_id"))))>> ELSE <<>>)]

\* week1_lookup[c] = wk for every candidate c of wk, for the rows from index j
\* on; a later row overwrites the entry of an earlier one; the loop stops at
\* the row whose candidates raise
RECURSIVE BuildLookup(_, _, _)
BuildLookup(list, j, lookup) ==
    IF j > Len(list) THEN [exc |-> "", val |-> lookup]
    ELSE LET cs == Candidates(list[j])
             mine == [c \in {cs.val[k] : k \in 1..Len(cs.val)} |-> j]
         IN  IF cs.exc # "" THEN [exc |-> cs.exc, val |-> lookup]
             ELSE BuildLookup(list, j + 1, mine @@ lookup)

EmptyLookup == [c \in {} |-> 0]

\* week1_lookup.get(key): the index of the row, 0 for None
LookupGet(lookup, key) == IF key \in DOMAIN lookup THEN lookup[key] ELSE 0

(***************************************************************************)
(* main: merge of one team with its week-1 row                             *)
(***************************************************************************)
OverallNames ==
    <<U("Overall Record"), U("overall_record"), U("Overall_Record"), U("combined_record"),
      U("combined record"), U("combinedRecord"), U("OverallRecord")>>
MatchupNames ==
    <<U("Matchup Record"), U("matchup_record"), U("Matchup_Record"), U("matchup record"),
      U("MatchupRecord")>>
MedianNames ==
    <<U("Median Score Record"), U("median_record"), U("Median_Record"),
      U("median score record"), U("MedianRecord")>>
MergePFNames == <<U("PF"), U("pf"), U("points_for"), U("pointsfor"), U("Points For")>>
MergePANames == <<U("PA"), U("pa"), U("points_against"), U("pointsagainst"), U("Points Against")>>

\* the week-1 row matched with team: by name, then by team_id; 0 for none
MatchOf(team, lookup) ==
    LET byName == LookupGet(lookup, normalize_name(team.Team.s))
    IN  IF byName = 0 /\ team.team_id # None
        THEN LookupGet(lookup, normalize_name(PyStr(team.team_id)))
        ELSE byName

\* combined = existing + wkrec, component by component, as a record string
Combine(existing, wk, names) ==
    Str(list_to_record(ZipAdd(RecordOf(existing),
                              RecordOf(find_wk_value(wk, names, Lit("0-0-0"))))))

\* team after the week-1 row wk is merged into it
MergeRow(team, wk) ==
    [team EXCEPT
        !.Overall_Record = Combine(team.Overall_Record, wk, OverallNames),
        !.Matchup_Record = Combine(team.Matchup_Record, wk, MatchupNames),
        !.Median_Score_Record = Combine(team.Median_Score_Record, wk, MedianNames),
        !.PF = SumRound2(to_float(team.PF), to_float(find_wk_value(wk, MergePFNames, Num(0)))),
        !.PA = SumRound2(to_float(team.PA), to_float(find_wk_value(wk, MergePANames, Num(0))))]

\* the key added to matched_wk_keys when team is merged
MatchedKey(team) == normalize_name(team.Team.s)

(***************************************************************************)
(* main: append of a week-1-only row                                       *)
(***************************************************************************)
\* the first name key of wk with a truthy value, 0 for none
FirstNameKey(wk) ==
    LET S == {k \in 1..Len(NameKeys) : Truthy(Get(wk, NameKeys[k], None))}
    IN  IF S = {} THEN 0 ELSE CHOOSE k \in S : \A o \in S : k <= o

\* primary key of wk as deduced by the append loop: a Str, or None (wk went
\* through the lookup loop: its truthy names are of type str)
PrimaryOf(wk) ==
    IF FirstNameKey(wk) # 0 THEN Str(normalize_name(Item(wk, NameKeys[FirstNameKey(wk)]).s))
    ELSE IF HasKey(wk, U("team_id")) THEN Str(normalize_name(PyStr(Item(wk, U("team_id")))))
    ELSE None

\* a or b or c or "Unknown"
FirstTruthy(vals, default) ==
    LET S == {k \in 1..Len(vals) : Truthy(vals[k])}
    IN  IF S = {} THEN default ELSE vals[CHOOSE k \in S : \A o \in S : k <= o]

\* the minimal team dict built from wk
AppendedRow(wk) ==
    [team_id |-> Get(wk, U("team_id"), None),
     Rank |-> None,
     Team |-> FirstTruthy(<<Get(wk, U("Team"), None), Get(wk, U("team"), None),
                            Get(wk, U("team_name"), None)>>, Lit("Unknown")),
     Overall_Record |->
        find_wk_value(wk, <<U("Overall Record"), U("overall_record"),
                            U("combined_record")>>, Lit("0-0-0")),
     Matchup_Record |->
        find_wk_value(wk, <<U("Matchup Record"), U("matchup_record"), U("matchup")>>,
                      Lit("0-0-0")),
     Median_Score_Record |->
        find_wk_value(wk, <<U("Median Score Record"), U("median_record"), U("median")>>,
                      Lit("0-0-0")),
     GB |-> Lit("-"),
     PF |-> Round2(to_float(find_wk_value(wk, <<U("PF"), U("pf"), U("points_for")>>,
                                          Num(0)))),
     PA |-> Round2(to_float(find_wk_value(wk, <<U("PA"), U("pa"), U("points_against")>>,
                                          Num(0))))]

(***************************************************************************)
(* main: leader, games-behind, re-rank                                     *)
(***************************************************************************)
Wins(row) == RecordOf(row.Overall_Record)[1]
Losses(row) == RecordOf(row.Overall_Record)[2]

\* team["PF"] = to_float(team.get("PF", 0)), and PA, for every row
NumericPoints(rows) ==
    [k \in 1..Len(rows) |-> [rows[k] EXCEPT !.PF = to_float(@), !.PA = to_float(@)]]

\* a < b of two tuples of numbers of the same length: decided by the first
\* position where the two are not equal
RECURSIVE TupleLess(_, _)
TupleLess(a, b) ==
    IF a = <<>> THEN FALSE
    ELSE IF FEq(a[1], b[1]) THEN TupleLess(Tail(a), Tail(b))
    ELSE FLess(a[1], b[1])

\* LeaderKey without the tie-breaks: overall wins only
LeaderKeyWinsOnly(row) == <<Flt(Wins(row), 0), Zero, Zero>>

\* key of max(): (overall wins, PF, -overall losses)
LeaderKey(row) == <<Flt(Wins(row), 0), row.PF, Flt(-Losses(row), 0)>>

\* max() over the rows from index k on: m is the row kept so far, replaced
\* by a row whose key is greater
RECURSIVE MaxFrom(_, _, _)
MaxFrom(keys, m, k) ==
    IF k > Len(keys) THEN m
    ELSE MaxFrom(keys, (IF TupleLess(keys[m], keys[k]) THEN k ELSE m), k + 1)

\* max(teams_data, key=...) as a row index
LeaderIndex(rows) == MaxFrom([k \in 1..Len(rows) |-> LeaderKey(rows[k])], 1, 2)

\* t["GB"] = 0 if t is leader else round(((lw - w) + (l - ll)) / 2, 1), in tenths
GamesBehind(row, lead, isLeader) ==
    IF isLeader THEN Num(0)
    ELSE LET r == RecordOf(row.Overall_Record)
             lr == RecordOf(lead.Overall_Record)
         IN  Num(5 * ((lr[1] - r[1]) + (r[2] - lr[2])))

SetGB(rows, m) ==
    [k \in 1..Len(rows) |-> [rows[k] EXCEPT !.GB = GamesBehind(rows[k], rows[m], k = m)]]

\* key of sorted(): (overall wins, PF)
RankKey(row) == <<Flt(Wins(row), 0), row.PF>>

Reverse(q) == [k \in 1..Len(q) |-> q[Len(q) + 1 - k]]

\* count_run: the length of the run order starts with, n of it known
RECURSIVE RunLen(_, _, _, _)
RunLen(keys, order, n, desc) ==
    IF n >= Len(order) THEN n
    ELSE IF TupleLess(keys[order[n + 1]], keys[order[n]]) = desc
    THEN RunLen(keys, order, n + 1, desc)
    ELSE n

\* count_run of a list of two or more: strictly descending when the second
\* is less than the first, else not descending
CountRun(keys, order) ==
    LET desc == TupleLess(keys[order[2]], keys[order[1]])
    IN  [n |-> RunLen(keys, order, 2, desc), desc |-> desc]

\* binarysort: the place of pivot among order[l + 1 .. r], by bisection
RECURSIVE BinPos(_, _, _, _, _)
BinPos(keys, order, pivot, l, r) ==
    IF l >= r THEN l
    ELSE LET p == l + (r - l) \div 2
         IN  IF TupleLess(keys[pivot], keys[order[p + 1]])
             THEN BinPos(keys, order, pivot, l, p)
             ELSE BinPos(keys, order, pivot, p + 1, r)

\* binarysort: the first start entries are sorted, the others are put in
RECURSIVE BinarySort(_, _, _)
BinarySort(keys, order, start) ==
    IF start >= Len(order) THEN order
    ELSE LET pivot == order[start + 1]
             l == BinPos(keys, order, pivot, 0, start)
         IN  BinarySort(keys,
                        SubSeq(order, 1, l) \o <<pivot>> \o SubSeq(order, l + 1, start)
                            \o SubSeq(order, start + 2, Len(order)),
                        start + 1)

\* sorted(..., reverse=True) of fewer than 64 rows, as row indices: the list
\* is reversed, its first run is found (and reversed when descending), the
\* other rows are put in by binary insertion, and the list is reversed again
SortedIdx(keys, n) ==
    LET turned == Reverse([k \in 1..n |-> k])
        run == CountRun(keys, turned)
        first == IF run.desc
                 THEN Reverse(SubSeq(turned, 1, run.n)) \o SubSeq(turned, run.n + 1, n)
                 ELSE turned
    IN  IF n < 2 THEN turned ELSE Reverse(BinarySort(keys, first, run.n))

\* teams_sorted as indices into teams_data
TeamsSorted(rows) == SortedIdx([k \in 1..Len(rows) |-> RankKey(rows[k])], Len(rows))

\* the first row of rows whose normalized name is name
FirstNamed(names, name) ==
    CHOOSE o \in 1..Len(names) :
        /\ names[o] = name
        /\ \A q \in 1..(o - 1) : names[q] # name

\* for i, t in enumerate(teams_sorted, 1): the first row named like t gets rank i
RECURSIVE AssignRanks(_, _, _, _)
AssignRanks(rows, names, order, i) ==
    IF i > Len(order) THEN rows
    ELSE LET o == FirstNamed(names, names[order[i]])
         IN  AssignRanks([rows EXCEPT ![o].Rank = Num(i)], names, order, i + 1)

\* normalize_name(t.get("Team", "")) of every row
RowNames(rows) == [k \in 1..Len(rows) |-> normalize_name(rows[k].Team.s)]

ReRanked(rows) == AssignRanks(rows, RowNames(rows), TeamsSorted(rows), 1)

(***************************************************************************)
(* Inputs                                                                  *)
(***************************************************************************)
MaxCurrentWeek == 15
MaxTeams == 2
MaxWeek1 == 2

SeqsUpTo(S, n) == UNION {[1..k -> S] : k \in 0..n}

\* the league of the median scorer: four teams
MedianLeague ==
    << Team(1, U("Team A"), 0, 0, 0, Zero, Zero, 1), Team(2, U("Team B"), 0, 0, 0, Zero, Zero, 2),
       Team(3, U("Team C"), 0, 0, 0, Zero, Zero, 3), Team(4, U("Team D"), 0, 0, 0, Zero, Zero, 4) >>

\* what l.box_scores(week) may return for a week; team 9 is no team of the
\* league
WeekPool ==
    { FetchFailed,
      Fetched(<< Box(Num(1), Num(10), Num(2), Num(20)),
                 Box(Num(3), Num(30), Num(4), Num(40)) >>),
      Fetched(<< Box(Num(1), None, Num(2), Num(20)),
                 Box(Num(3), Num(30), Num(4), Num(40)) >>),
      Fetched(<< Box(Num(1), None, Num(2), None),
                 Box(Num(3), None, Num(4), None) >>),
      Fetched(<< Box(Num(1), Num(20), Num(2), Num(20)),
                 Box(Num(3), Num(20), Num(4), Num(20)) >>),
      Fetched(<< Box(Num(4), Num(35), Num(1), Num(15)),
                 Box(Num(2), Num(25), None, None) >>),
      Fetched(<< Box(Num(1), Num(10), Num(9), None),
                 Box(Num(9), Num(40), Num(3), Num(30)) >>) }

\* the teams a league may hold in the pipeline runs
TeamPool ==
    { Team(1, U("Team A"), 5, 3, 0, Flt(500, 0), Flt(450, 0), 1),
      Team(2, U("Team B"), 5, 3, 0, Flt(48052, 2), Flt(470125, 3), 2),
      Team(2, U("team-a"), 6, 2, 0, Flt(510, 0), Flt(4004, 1), 2),
      Team(3, U("Cubs"), 5, 2, 1, Num(500), Flt(430, 0), 3) }

Leagues ==
    {ts \in SeqsUpTo(TeamPool, MaxTeams) :
        \A a, b \in 1..Len(ts) : a # b => ts[a].team_id # ts[b].team_id}

\* the tallies get_median_records may have returned for a team
MedianPool == {[wins |-> 3, losses |-> 5], [wins |-> 4, losses |-> 4]}

Entry(k, v) == [k |-> k, v |-> v]

\* the rows the week-1 file may hold; the row of the Cubs writes 9-1-0 and
\* 90.126 with the digits U+06F9 and U+06F0, after the space U+1680
Week1Pool ==
    { << Entry(U("Team"), Lit("Team A")), Entry(U("Overall Record"), Lit("2-0-0")),
         Entry(U("Matchup Record"), Lit("1-0-0")),
         Entry(U("Median Score Record"), Lit("1-0-0")),
         Entry(U("PF"), Num(120)), Entry(U("PA"), Num(100)) >>,
      << Entry(U("team"), Lit(" TEAM A! ")), Entry(U("Overall Record"), Lit("1-0-0")),
         Entry(U("pf"), Lit(" 7.5 ")) >>,
      << Entry(U("Team"), Lit("Bees")), Entry(U("team_id"), Num(1)),
         Entry(U("Overall Record"), Lit("1-1-0")), Entry(U("Matchup Record"), Lit("1-0-0")),
         Entry(U("Median Score Record"), Lit("0-1-0")),
         Entry(U("Points For"), Lit("+95")), Entry(U("Points Against"), Lit("n/a")) >>,
      << Entry(U("Team"), Num(5)), Entry(U("Overall Record"), Lit("1-0-0")),
         Entry(U("PF"), Num(60)) >>,
      << Entry(U("team_id"), Num(9)), Entry(U("combinedRecord"), Lit("2-0")),
         Entry(U("matchup"), Lit("1-0")), Entry(U("median"), Lit("1-0")),
         Entry(U("PF"), Lit("1.3e2")) >>,
      << Entry(U("Team"), None), Entry(U("team_id"), None),
         Entry(U("Overall Record"), Str(<<>>)) >>,
      << Entry(U("team_name"), Lit("Cubs")),
         Entry(U("Overall Record"), Str(<<1785>> \o U("-1-0"))),
         Entry(U("Matchup Record"), Lit("5-0-0")),
         Entry(U("Median Score Record"), Lit("4-1-0")),
         Entry(U("PF"), Flt(14025, 2)), Entry(U("PA"), Str(<<5760, 1785, 1776>> \o U(".126"))) >>,
      << Entry(U("Overall Record"), Lit("1-0-0")), Entry(U("PF"), Num(50)) >> }

\* the file holds up to MaxWeek1 of these rows, each at most once, in any order
Week1Lists ==
    {l \in SeqsUpTo(Week1Pool, MaxWeek1) : \A a, b \in 1..Len(l) : a # b => l[a] # l[b]}

(***************************************************************************)
(* get_median_records as a state machine                                   *)
(***************************************************************************)
MainIdle ==
    /\ week1_list = <<>>
    /\ week1_lookup = EmptyLookup
    /\ matched_wk_keys = {}
    /\ teams_data = <<>>
    /\ idx = 0
    /\ leader = 0
    /\ merge_log = {}
    /\ append_log = <<>>

InitMedian ==
    /\ pc = "weeks"
    /\ teams = MedianLeague
    /\ current_week \in 0..MaxCurrentWeek
    /\ week = 1
    /\ box_scores = FetchFailed
    /\ median_x2 = 0
    /\ median_records = ZeroRecords(teams)
    /\ prev_records = ZeroRecords(teams)
    /\ clean_records = ZeroRecords(teams)
    /\ scored_weeks = [id \in TeamIds(teams) |-> 0]
    /\ weeks_seen = <<>>
    /\ MainIdle

\* team id has a side with a score in the fetched week
HasScore(fetched, id) ==
    /\ fetched.ok
    /\ \E b \in 1..Len(fetched.boxes) :
          \/ fetched.boxes[b].home_team = Num(id) /\ fetched.boxes[b].home_score # None
          \/ fetched.boxes[b].away_team = Num(id) /\ fetched.boxes[b].away_score # None

\* the week has a score at all
AnyScore(fetched) ==
    /\ fetched.ok
    /\ \E b \in 1..Len(fetched.boxes) :
          fetched.boxes[b].home_score # None \/ fetched.boxes[b].away_score # None

\* one iteration of: for week in range(1, max_week)
WeekStep ==
    /\ pc = "weeks"
    /\ week < max_week(current_week)
    /\ \E fetched \in WeekPool :
          /\ box_scores' = fetched
          /\ median_x2' = ProcessMedian(median_x2, fetched)
          /\ \E tally \in {ProcessWeek(median_records, fetched)} :
                /\ median_records' = tally.val
                /\ pc' = IF tally.exc # "" THEN "crashed" ELSE pc
          /\ prev_records' = median_records
          /\ clean_records' = IF AnyScore(fetched)
                              THEN ScoreWeek(clean_records, fetched.boxes).val
                              ELSE clean_records
          /\ scored_weeks' = [id \in DOMAIN scored_weeks |->
                                 scored_weeks[id] + (IF HasScore(fetched, id) THEN 1 ELSE 0)]
    /\ weeks_seen' = Append(weeks_seen, week)
    /\ week' = week + 1
    /\ UNCHANGED <<teams, current_week>>
    /\ UNCHANGED mainVars

\* the loop is over: return median_records
ReturnMedian ==
    /\ pc = "weeks"
    /\ week >= max_week(current_week)
    /\ pc' = "returned"
    /\ UNCHANGED <<teams, medianVars>>
    /\ UNCHANGED mainVars

NextMedian == WeekStep \/ ReturnMedian

SpecMedian == InitMedian /\ [][NextMedian]_vars

(***************************************************************************)
(* main as a state machine, from the return of get_median_records          *)
(***************************************************************************)
InitMain ==
    /\ pc = "build"
    /\ teams \in Leagues
    /\ median_records \in [TeamIds(teams) -> MedianPool]
    /\ week1_list \in Week1Lists
    /\ week1_lookup = EmptyLookup
    /\ matched_wk_keys = {}
    /\ teams_data = <<>>
    /\ idx = 0
    /\ leader = 0
    /\ merge_log = {}
    /\ append_log = <<>>
    /\ current_week = 0
    /\ week = 0
    /\ box_scores = FetchFailed
    /\ median_x2 = 0
    /\ prev_records = median_records
    /\ clean_records = median_records
    /\ scored_weeks = [id \in TeamIds(teams) |-> 0]
    /\ weeks_seen = <<>>

\* teams_data = [row of t for t in league.teams]
BuildSnapshot ==
    /\ pc = "build"
    /\ teams_data' = BuildRows(teams, median_records)
    /\ pc' = "lookup"
    /\ UNCHANGED <<teams, medianVars, week1_list, week1_lookup, matched_wk_keys, idx,
                   leader, merge_log, append_log>>

\* the loop that fills week1_lookup; an exception raised in it ends main()
LoadWeek1 ==
    /\ pc = "lookup"
    /\ \E built \in {BuildLookup(week1_list, 1, EmptyLookup)} :
          /\ week1_lookup' = built.val
          /\ pc' = IF built.exc # "" THEN "crashed" ELSE "merge"
    /\ matched_wk_keys' = {}
    /\ idx' = 1
    /\ UNCHANGED <<teams, medianVars, week1_list, teams_data, leader, merge_log, append_log>>

\* one iteration of: for team in teams_data (merge)
MergeStep ==
    /\ pc = "merge"
    /\ idx <= Len(teams_data)
    /\ \E j \in {MatchOf(teams_data[idx], week1_lookup)} :
        LET team == teams_data[idx]
        IN IF j = 0
           THEN UNCHANGED <<teams_data, matched_wk_keys, merge_log>>
           ELSE /\ matched_wk_keys' = matched_wk_keys \cup {MatchedKey(team)}
                /\ teams_data' = [teams_data EXCEPT ![idx] = MergeRow(team, week1_list[j])]
                /\ merge_log' = merge_log \cup {<<idx, j>>}
    /\ idx' = idx + 1
    /\ UNCHANGED <<pc, teams, medianVars, week1_list, week1_lookup, leader, append_log>>

MergeDone ==
    /\ pc = "merge"
    /\ idx > Len(teams_data)
    /\ pc' = "append"
    /\ idx' = 1
    /\ UNCHANGED <<teams, medianVars, week1_list, week1_lookup, matched_wk_keys, teams_data,
                   leader, merge_log, append_log>>

\* one iteration of: for wk in week1_list (append)
AppendStep ==
    /\ pc = "append"
    /\ idx <= Len(week1_list)
    /\ \E primary \in {PrimaryOf(week1_list[idx])} :
          IF primary = None \/ primary.s \in matched_wk_keys
          THEN UNCHANGED <<teams_data, matched_wk_keys, append_log>>
          ELSE /\ teams_data' = Append(teams_data, AppendedRow(week1_list[idx]))
               /\ matched_wk_keys' = matched_wk_keys \cup {primary.s}
               /\ append_log' = Append(append_log, idx)
    /\ idx' = idx + 1
    /\ UNCHANGED <<pc, teams, medianVars, week1_list, week1_lookup, leader, merge_log>>

AppendDone ==
    /\ pc = "append"
    /\ idx > Len(week1_list)
    /\ pc' = "leader"
    /\ UNCHANGED <<teams, medianVars, mainVars>>

\* PF and PA made numeric; leader = max(...); GB of every row.  max() of an
\* empty list raises.
LeaderGB ==
    /\ pc = "leader"
    /\ IF teams_data = <<>>
       THEN /\ pc' = "crashed"
            /\ UNCHANGED <<teams_data, leader>>
       ELSE /\ leader' = LeaderIndex(NumericPoints(teams_data))
            /\ teams_data' = SetGB(NumericPoints(teams_data), leader')
            /\ pc' = "rank"
    /\ UNCHANGED <<teams, medianVars, week1_list, week1_lookup, matched_wk_keys, idx,
                   merge_log, append_log>>

\* the re-rank loop, then the report is written
ReRank ==
    /\ pc = "rank"
    /\ teams_data' = ReRanked(teams_data)
    /\ pc' = "done"
    /\ UNCHANGED <<teams, medianVars, week1_list, week1_lookup, matched_wk_keys, idx,
                   leader, merge_log, append_log>>

NextMain ==
    \/ BuildSnapshot
    \/ LoadWeek1
    \/ MergeStep
    \/ MergeDone
    \/ AppendStep
    \/ AppendDone
    \/ LeaderGB
    \/ ReRank

SpecMain == InitMain /\ [][NextMain]_vars

(***************************************************************************)
(* Properties of get_median_records (SpecMedian)                           *)
(***************************************************************************)
\* the sides of the last fetched week: <<box index, "home" or "away">>
LastSides == {<<b, h>> : b \in 1..Len(box_scores.boxes), h \in {"home", "away"}}

SideTeam(q) ==
    IF q[2] = "home" THEN box_scores.boxes[q[1]].home_team
    ELSE box_scores.boxes[q[1]].away_team

SideScore(q) ==
    IF q[2] = "home" THEN box_scores.boxes[q[1]].home_score
    ELSE box_scores.boxes[q[1]].away_score

\* the sides of the last fetched week that carry a score
Scored == {q \in LastSides : SideScore(q) # None}

\* x is the j-th smallest of the scores of the last fetched week
OrderStat(x, j) ==
    /\ \E q \in Scored : SideScore(q).n = x
    /\ Cardinality({q \in Scored : SideScore(q).n < x}) <= j - 1
    /\ Cardinality({q \in Scored : SideScore(q).n > x}) <= Cardinality(Scored) - j

\* m2 is twice the median of the scores of the last fetched week
IsMedianX2(m2) ==
    LET n == Cardinality(Scored)
        Values == {SideScore(q).n : q \in Scored}
    IN  IF n % 2 = 1
        THEN \E x \in Values : OrderStat(x, (n + 1) \div 2) /\ m2 = 2 * x
        ELSE \E x, y \in Values :
                OrderStat(x, n \div 2) /\ OrderStat(y, n \div 2 + 1) /\ m2 = x + y

\* the week of the spec's example: scores 10, 20, 30, 40
ExampleWeek ==
    Fetched(<< Box(Num(1), Num(10), Num(2), Num(20)), Box(Num(3), Num(30), Num(4), Num(40)) >>)

\* C5: for current_week = c the scorer fetches exactly the weeks
\* 1..min(c, 14), in increasing order.
C5_WeeksUpToCap ==
    pc = "returned" =>
        weeks_seen = [k \in 1..Min(current_week, 14) |-> k]

\* C6: in every fetched week with a score the median is the middle value of
\* the sorted scores (the mean of the two middle values for an even count);
\* a team with a score gets exactly one increment, a win when its score is at
\* least the median and a loss otherwise; a team without a score gets none;
\* so wins + losses is the number of fetched weeks in which the team had a
\* score, and the median record written to the report has 0 ties.  The
\* tallies are those of a run that was not ended by the KeyError of a side
\* whose team is not in the league.
C6_MedianTally ==
    /\ (weeks_seen # <<>> /\ Scored # {}) => IsMedianX2(median_x2)
    /\ (weeks_seen # <<>> /\ pc # "crashed") =>
          \A id \in TeamIds(teams) :
              LET mine == {q \in Scored : SideTeam(q) = Num(id)}
                  won == {q \in mine : 2 * SideScore(q).n >= median_x2}
                  dw == median_records[id].wins - prev_records[id].wins
                  dl == median_records[id].losses - prev_records[id].losses
              IN  /\ dw = Cardinality(won)
                  /\ dl = Cardinality(mine \ won)
                  /\ dw + dl = (IF box_scores.ok /\ mine # {} THEN 1 ELSE 0)
    /\ \A id \in TeamIds(teams) :
          /\ pc # "crashed" =>
                median_records[id].wins + median_records[id].losses = scored_weeks[id]
          /\ record_to_list(med_str(median_records[id]))
                = <<median_records[id].wins, median_records[id].losses, 0>>

\* C6 witness: the example week was just scored after a week in which team 1
\* had no score: median 25, teams 3 and 4 win, teams 1 and 2 lose.
C6_Witness ==
    /\ box_scores = ExampleWeek
    /\ median_x2 = 50
    /\ scored_weeks[1] < Len(weeks_seen)
    /\ median_records[3].wins = prev_records[3].wins + 1
    /\ median_records[4].wins = prev_records[4].wins + 1
    /\ median_records[1].losses = prev_records[1].losses + 1
    /\ median_records[2].losses = prev_records[2].losses + 1

\* C9: a week whose fetch fails or that holds no score changes no tally and
\* stops nothing: the loop goes on to the next week, and the tally is the one
\* of the weeks that had a score, processed alone.  Only a week with a score
\* can end the run (KeyError of a team that is not in the league).
C9_SkippedWeeks ==
    /\ pc \in {"weeks", "returned", "crashed"}
    /\ pc = "crashed" => (box_scores.ok /\ Scored # {})
    /\ Len(weeks_seen) = week - 1
    /\ (weeks_seen # <<>> /\ Scored = {}) => median_records = prev_records
    /\ median_records = clean_records
    /\ pc = "returned" => week = max_week(current_week)

\* C9 witness: a fetch failed after a scored week and the tally of team 2
\* is as it was; a later week is still to be fetched.
C9_Witness ==
    /\ pc = "weeks"
    /\ ~box_scores.ok
    /\ Len(weeks_seen) >= 2
    /\ scored_weeks[2] >= 1
    /\ median_records[2].wins + median_records[2].losses >= 1
    /\ median_records = prev_records
    /\ week < max_week(current_week)

(***************************************************************************)
(* Properties of main (SpecMain)                                           *)
(***************************************************************************)
RECURSIVE SumSeq(_)
SumSeq(q) == IF q = <<>> THEN 0 ELSE q[1] + SumSeq(Tail(q))

\* the append loop is over
AfterAppend == pc \in {"leader", "rank", "done"}

\* C1: in every row, at every stage from the snapshot on, the components of
\* the Overall Record sum to those of the Matchup Record plus those of the
\* Median Score Record.
C1_OverallIsMatchupPlusMedian ==
    \A k \in 1..Len(teams_data) :
        SumSeq(RecordOf(teams_data[k].Overall_Record))
            = SumSeq(RecordOf(teams_data[k].Matchup_Record))
              + SumSeq(RecordOf(teams_data[k].Median_Score_Record))

\* C2: in one merge pass a snapshot row receives at most one week-1 row and
\* a week-1 row is added into at most one snapshot row.
C2_NoRowMergedTwice ==
    \A a, b \in merge_log :
        /\ a[1] = b[1] => a[2] = b[2]
        /\ a[2] = b[2] => a[1] = b[1]

\* the number of times week-1 row j was appended
TimesAppended(j) == Cardinality({m \in 1..Len(append_log) : append_log[m] = j})

\* C3: a week-1 row with a usable key (a name, or a team_id that is not
\* blank) is appended exactly once when no snapshot row was merged with it,
\* and never when one was.
C3_AppendedIffUnmatched ==
    AfterAppend =>
        \A j \in 1..Len(week1_list) :
            Candidates(week1_list[j]).val # <<>> =>
                TimesAppended(j) = (IF \E a \in merge_log : a[2] = j THEN 0 ELSE 1)

\* the snapshot rows after the merge loop over a week-1 list
MergedRows(rows, list) ==
    LET lookup == BuildLookup(list, 1, EmptyLookup).val
    IN  [k \in 1..Len(rows) |->
            IF MatchOf(rows[k], lookup) = 0 THEN rows[k]
            ELSE MergeRow(rows[k], list[MatchOf(rows[k], lookup)])]

\* matched_wk_keys after the merge loop over a week-1 list
MergedKeys(rows, list) ==
    LET lookup == BuildLookup(list, 1, EmptyLookup).val
    IN  {MatchedKey(rows[k]) : k \in {m \in 1..Len(rows) : MatchOf(rows[m], lookup) # 0}}

\* the rows appended by the append loop from index j on
RECURSIVE AppendedRows(_, _, _)
AppendedRows(list, j, matched) ==
    IF j > Len(list) THEN <<>>
    ELSE LET primary == PrimaryOf(list[j])
         IN  IF primary = None \/ primary.s \in matched
             THEN AppendedRows(list, j + 1, matched)
             ELSE <<AppendedRow(list[j])>>
                  \o AppendedRows(list, j + 1, matched \cup {primary.s})

\* teams_data after the merge loop and the append loop over a week-1 list
MergeAndAppend(rows, list) ==
    MergedRows(rows, list) \o AppendedRows(list, 1, MergedKeys(rows, list))

Reorderings(list) ==
    {[k \in 1..Len(list) |-> list[f[k]]] :
        f \in {g \in [1..Len(list) -> 1..Len(list)] :
                  \A a, b \in 1..Len(list) : a # b => g[a] # g[b]}}

\* C4: for every other order of the same week-1 rows the snapshot rows end
\* with the same records, PF and PA, and the same set of rows is appended.
C4_OrderIndependent ==
    pc = "leader" =>
        \A other \in Reorderings(week1_list) :
            LET n == Len(teams)
                res == MergeAndAppend(BuildRows(teams, median_records), other)
            IN  /\ SubSeq(res, 1, n) = SubSeq(teams_data, 1, n)
                /\ {res[k] : k \in (n + 1)..Len(res)}
                      = {teams_data[k] : k \in (n + 1)..Len(teams_data)}

\* the Rank of row k as a number, 0 when unset
RankOf(k) == IF teams_data[k].Rank = None THEN 0 ELSE teams_data[k].Rank.n

\* C7: after the re-rank the ranks are exactly 1..N, each used once, a row
\* with more overall wins, or as many and a higher PF, has the smaller rank,
\* and the rows are in the order they had: the league's teams, then the
\* appended week-1 rows.
C7_RanksArePermutation ==
    pc = "done" =>
        LET N == Len(teams_data)
        IN  /\ {RankOf(k) : k \in 1..N} = 1..N
            /\ \A a, b \in 1..N :
                  (\/ Wins(teams_data[b]) < Wins(teams_data[a])
                   \/ /\ Wins(teams_data[b]) = Wins(teams_data[a])
                      /\ FLess(teams_data[b].PF, teams_data[a].PF))
                      => RankOf(a) < RankOf(b)
            /\ N = Len(teams) + Len(append_log)
            /\ \A k \in 1..Len(teams) : teams_data[k].Team = Str(teams[k].team_name)
            /\ \A m \in 1..Len(append_log) :
                  teams_data[Len(teams) + m].Team = AppendedRow(week1_list[append_log[m]]).Team

\* C8: once GB is computed the leader maximizes overall wins, then PF, then
\* has the fewest overall losses; its GB is 0; every other row's GB is
\* ((leader wins - wins) + (losses - leader losses)) / 2 from the merged
\* overall records, negative values kept; no row keeps the placeholder "-".
C8_LeaderAndGamesBehind ==
    pc \in {"rank", "done"} =>
        LET N == Len(teams_data)
            W(k) == RecordOf(teams_data[k].Overall_Record)[1]
            L(k) == RecordOf(teams_data[k].Overall_Record)[2]
            PF(k) == teams_data[k].PF
        IN  /\ leader \in 1..N
            /\ \A o \in 1..N :
                  \/ W(o) < W(leader)
                  \/ W(o) = W(leader) /\ FLess(PF(o), PF(leader))
                  \/ W(o) = W(leader) /\ FEq(PF(o), PF(leader)) /\ L(o) >= L(leader)
            /\ teams_data[leader].GB = Num(0)
            /\ \A o \in 1..N :
                  /\ teams_data[o].GB # Lit("-")
                  /\ o # leader =>
                        teams_data[o].GB.n = 5 * ((W(leader) - W(o)) + (L(o) - L(leader)))

\* C8 witness: the spec's example; A is 8-8-0 and B 9-7-0 overall, B leads
\* and A is 1.0 game behind.
C8_Witness ==
    /\ pc = "done"
    /\ Len(teams_data) = 2
    /\ teams_data[1].Overall_Record = Lit("8-8-0")
    /\ teams_data[2].Overall_Record = Lit("9-7-0")
    /\ leader = 2
    /\ teams_data[2].GB = Num(0)
    /\ teams_data[1].GB = Num(10)

\* C10: in the final report the row picked as leader has Rank 1 and the row
\* with Rank 1 has GB 0.
C10_LeaderIsRankedFirst ==
    pc = "done" =>
        /\ RankOf(leader) = 1
        /\ \A k \in 1..Len(teams_data) : RankOf(k) = 1 => teams_data[k].GB = Num(0)

====
